---- MODULE Spec2Model ----
(***************************************************************************)
(* Model of the justice-agent tools: the polling engine                    *)
(* (tools/utils/polling_manager.py) and the consultation orchestrators     *)
(* (tools/process_consultation.py, tools/document_consultation.py).        *)
(*                                                                         *)
(* Time is counted in ticks of 1/32 s, so that every interval of the       *)
(* default backoff series 2, 3, 4.5, 6.75, ... is an exact integer, as it  *)
(* is an exact binary float in the program.                                *)
(***************************************************************************)
EXTENDS Integers, Sequences, FiniteSets, TLC

Ticks(seconds) == 32 * seconds

Min(a, b) == IF a <= b THEN a ELSE b

(***************************************************************************)
(* PollingConfig.  The backoff multiplier is the rational                  *)
(* backoff_num / backoff_den.                                              *)
(***************************************************************************)
PollingConfig(initial, maxint, num, den, maxwait, buffer) ==
    [initial_interval |-> initial, max_interval |-> maxint,
     backoff_num |-> num, backoff_den |-> den,
     max_wait_time |-> maxwait, timeout_buffer |-> buffer]

\* the dataclass defaults: 2.0 s, 30.0 s, x1.5, 900.0 s, 30.0 s
DefaultConfig ==
    PollingConfig(Ticks(2), Ticks(30), 3, 2, Ticks(900), Ticks(30))

\* the configuration of the spec's timeout scenario: max wait 5 s, buffer 1 s
ShortConfig ==
    PollingConfig(Ticks(2), Ticks(30), 3, 2, Ticks(5), Ticks(1))

\* a configuration whose backoff reaches the cap well inside the budget
CappedConfig ==
    PollingConfig(Ticks(1), Ticks(4), 2, 1, Ticks(24), Ticks(3))

\* a constant-interval configuration (multiplier 1)
FlatConfig ==
    PollingConfig(Ticks(3), Ticks(3), 1, 1, Ticks(14), Ticks(2))

\* a configuration whose buffer swallows the whole budget
NoBudgetConfig ==
    PollingConfig(Ticks(2), Ticks(30), 3, 2, Ticks(5), Ticks(5))

\* configurations that validate_config accepts without a warning
Configs == {DefaultConfig, ShortConfig, CappedConfig, FlatConfig, NoBudgetConfig}

\* a configuration validate_config warns about and PollingConfig accepts:
\* the cap lies below the initial interval
InvertedConfig ==
    PollingConfig(Ticks(2), Ticks(1), 3, 2, Ticks(5), Ticks(1))

\* configurations that PollingConfig accepts
AnyConfigs == Configs \cup {InvertedConfig}

\* per-request timeout of the HTTP client, in seconds
REQUEST_TIMEOUT == 30

\* how long one status check may take: instantaneous, or up to the timeout
CheckDurations == {0, Ticks(REQUEST_TIMEOUT)}

NoStatus == [ready |-> FALSE, n |-> 0]

(***************************************************************************)
(* Texts are sequences of one-character strings.                           *)
(***************************************************************************)
Digits == {"0", "1", "2", "3", "4", "5", "6", "7", "8", "9"}

DigitValue(ch) ==
    CASE ch = "0" -> 0 [] ch = "1" -> 1 [] ch = "2" -> 2 [] ch = "3" -> 3
      [] ch = "4" -> 4 [] ch = "5" -> 5 [] ch = "6" -> 6 [] ch = "7" -> 7
      [] ch = "8" -> 8 [] ch = "9" -> 9

\* t[i : i + n]
Slice(t, i, n) == [j \in 1..n |-> t[i + j - 1]]

\* \d{n} at position i
DigitsAt(t, i, n) ==
    /\ i + n - 1 <= Len(t)
    /\ \A j \in i..(i + n - 1) : t[j] \in Digits

\* an optional separator: it is taken when present, and giving it back never
\* helps because a digit has to follow
SkipOptional(t, i, separators) ==
    IF i <= Len(t) /\ t[i] \in separators THEN i + 1 ELSE i

\* length of the run of digits that starts at position i
RECURSIVE DigitRun(_, _)
DigitRun(t, i) ==
    IF i <= Len(t) /\ t[i] \in Digits THEN 1 + DigitRun(t, i + 1) ELSE 0

\* int(digits)
RECURSIVE ToInt(_)
ToInt(ds) ==
    IF ds = <<>> THEN 0
    ELSE 10 * ToInt(SubSeq(ds, 1, Len(ds) - 1)) + DigitValue(ds[Len(ds)])

\* str.strip() for the blank of the model alphabet
RECURSIVE Strip(_)
Strip(t) ==
    IF t = <<>> THEN t
    ELSE IF Head(t) = " " THEN Strip(Tail(t))
    ELSE IF t[Len(t)] = " " THEN Strip(SubSeq(t, 1, Len(t) - 1))
    ELSE t

\* str.zfill(width)
RECURSIVE ZFill(_, _)
ZFill(ds, width) == IF Len(ds) >= width THEN ds ELSE ZFill(<<"0">> \o ds, width)

\* re.sub(r'[^\d]', '', text)
OnlyDigits(t) == SelectSeq(t, LAMBDA ch : ch \in Digits)

NoMatch == [ok |-> FALSE, groups |-> <<>>, next |-> 0]

(***************************************************************************)
(* ProcessValidator                                                        *)
(***************************************************************************)
VALID_YEARS == 1998..2049

VALID_SEGMENTS == {1, 2, 3, 4, 6, 8, 9}

\* one attempt of a CNJ pattern at position i whose first group takes n
\* digits; `dash` separates the first two groups and `dot` the others
CnjMatchAt(t, i, n, dash, dot) ==
    LET p2 == SkipOptional(t, i + n, dash)
        p3 == SkipOptional(t, p2 + 2, dot)
        p4 == SkipOptional(t, p3 + 4, dot)
        p5 == SkipOptional(t, p4 + 1, dot)
        p6 == SkipOptional(t, p5 + 2, dot)
    IN  IF /\ DigitsAt(t, i, n)
           /\ DigitsAt(t, p2, 2)
           /\ DigitsAt(t, p3, 4)
           /\ DigitsAt(t, p4, 1)
           /\ DigitsAt(t, p5, 2)
           /\ DigitsAt(t, p6, 4)
        THEN [ok |-> TRUE,
              groups |-> <<Slice(t, i, n), Slice(t, p2, 2), Slice(t, p3, 4),
                           Slice(t, p4, 1), Slice(t, p5, 2), Slice(t, p6, 4)>>,
              next |-> p6 + 4]
        ELSE NoMatch

\* CNJ_FULL_PATTERN at position i
FullMatchAt(t, i) == CnjMatchAt(t, i, 7, {"-"}, {"."})

\* CNJ_LOOSE_PATTERN at position i: (\d{7,}) is greedy and gives digits back
\* one at a time, down to seven
RECURSIVE LooseMatchFrom(_, _, _)
LooseMatchFrom(t, i, n) ==
    IF n < 7 THEN NoMatch
    ELSE LET m == CnjMatchAt(t, i, n, {"-", "."}, {"-", "."})
         IN  IF m.ok THEN m ELSE LooseMatchFrom(t, i, n - 1)

LooseMatchAt(t, i) == LooseMatchFrom(t, i, DigitRun(t, i))

\* (\d{20}) at position i
FlatMatchAt(t, i) ==
    IF DigitsAt(t, i, 20)
    THEN [ok |-> TRUE, groups |-> Slice(t, i, 20), next |-> i + 20]
    ELSE NoMatch

\* pattern.findall(text): leftmost matches, none overlapping
RECURSIVE FindAllFull(_, _)
FindAllFull(t, i) ==
    IF i > Len(t) THEN <<>>
    ELSE LET m == FullMatchAt(t, i)
         IN  IF m.ok THEN <<m.groups>> \o FindAllFull(t, m.next)
             ELSE FindAllFull(t, i + 1)

RECURSIVE FindAllLoose(_, _)
FindAllLoose(t, i) ==
    IF i > Len(t) THEN <<>>
    ELSE LET m == LooseMatchAt(t, i)
         IN  IF m.ok THEN <<m.groups>> \o FindAllLoose(t, m.next)
             ELSE FindAllLoose(t, i + 1)

RECURSIVE FindAllFlat(_, _)
FindAllFlat(t, i) ==
    IF i > Len(t) THEN <<>>
    ELSE LET m == FlatMatchAt(t, i)
         IN  IF m.ok THEN <<m.groups>> \o FindAllFlat(t, m.next)
             ELSE FindAllFlat(t, i + 1)

\* the result None of _format_process_parts
None == <<>>

\* a formatting that keeps the digits and leaves the punctuation out
FormatProcessPartsUnpunctuated(parts) ==
    IF Len(parts) # 6 THEN None
    ELSE IF ToInt(ZFill(parts[3], 4)) \notin VALID_YEARS THEN None
    ELSE IF ToInt(ZFill(parts[4], 1)) \notin VALID_SEGMENTS THEN None
    ELSE ZFill(parts[1], 7) \o ZFill(parts[2], 2) \o ZFill(parts[3], 4)
             \o ZFill(parts[4], 1) \o ZFill(parts[5], 2) \o ZFill(parts[6], 4)

\* _format_process_parts(parts)
FormatProcessParts(parts) ==
    IF Len(parts) # 6 THEN None
    ELSE LET sequential   == ZFill(parts[1], 7)
             check_digits == ZFill(parts[2], 2)
             year         == ZFill(parts[3], 4)
             segment      == ZFill(parts[4], 1)
             court        == ZFill(parts[5], 2)
             origin       == ZFill(parts[6], 4)
         IN  IF ToInt(year) \notin VALID_YEARS THEN None
             ELSE IF ToInt(segment) \notin VALID_SEGMENTS THEN None
             ELSE sequential \o <<"-">> \o check_digits \o <<".">> \o year
                    \o <<".">> \o segment \o <<".">> \o court \o <<".">>
                    \o origin

\* a scan of one tier that ends at the first invalid candidate
RECURSIVE FormatAllUntilInvalid(_)
FormatAllUntilInvalid(matches) ==
    IF matches = <<>> THEN <<>>
    ELSE LET formatted == FormatProcessParts(Head(matches))
         IN  IF formatted # None
             THEN <<formatted>> \o FormatAllUntilInvalid(Tail(matches))
             ELSE <<>>

\* the candidates of one tier, formatted, the invalid ones dropped
RECURSIVE FormatAll(_)
FormatAll(matches) ==
    IF matches = <<>> THEN <<>>
    ELSE LET formatted == FormatProcessParts(Head(matches))
         IN  (IF formatted # None THEN <<formatted>> ELSE <<>>)
                 \o FormatAll(Tail(matches))

\* the six parts of a 20-digit match
FlatParts(match) ==
    <<SubSeq(match, 1, 7), SubSeq(match, 8, 9), SubSeq(match, 10, 13),
      SubSeq(match, 14, 14), SubSeq(match, 15, 16), SubSeq(match, 17, 20)>>

RECURSIVE FlatPartsAll(_)
FlatPartsAll(matches) ==
    IF matches = <<>> THEN <<>>
    ELSE <<FlatParts(Head(matches))>> \o FlatPartsAll(Tail(matches))

\* remove duplicates while preserving order
RECURSIVE Unique(_, _)
Unique(items, seen) ==
    IF items = <<>> THEN <<>>
    ELSE IF Head(items) \in seen THEN Unique(Tail(items), seen)
    ELSE <<Head(items)>> \o Unique(Tail(items), seen \cup {Head(items)})

\* an extraction that gathers the candidates of all three tiers
extract_process_numbers_all_tiers(text) ==
    LET t      == Strip(text)
        strict == FormatAll(FindAllFull(t, 1))
        loose  == FormatAll(FindAllLoose(t, 1))
        flat   == FormatAll(FlatPartsAll(FindAllFlat(t, 1)))
    IN  Unique(strict \o loose \o flat, {})

\* extract_process_numbers(text).  Of ALTERNATIVE_PATTERNS only the 20-digit
\* one contributes: the matches of the first are tuples, which the
\* isinstance(match, str) test discards.
extract_process_numbers(text) ==
    LET t      == Strip(text)
        strict == FormatAll(FindAllFull(t, 1))
        loose  == IF strict = <<>> THEN FormatAll(FindAllLoose(t, 1))
                  ELSE strict
        flat   == IF loose = <<>>
                  THEN FormatAll(FlatPartsAll(FindAllFlat(t, 1)))
                  ELSE loose
    IN  Unique(flat, {})

\* extract_first_process(text) / extract_first_valid_process(text)
extract_first_process(text) ==
    LET extracted == extract_process_numbers(text)
    IN  IF extracted # <<>> THEN extracted[1] ELSE None

\* what a normalization does: it returns a string, or raises the validation
\* error of its module with a message f"{text}: {input}"
Returns(value) ==
    [ok |-> TRUE, value |-> value, error |-> "none", text |-> "",
     input |-> <<>>]

Raises(error, text, input) ==
    [ok |-> FALSE, value |-> <<>>, error |-> error, text |-> text,
     input |-> input]

\* validate_process_number(process_number): exactly one number is extracted
validate_process_number(process_number) ==
    LET extracted == extract_process_numbers(process_number)
    IN  IF extracted = <<>> THEN FALSE ELSE Len(extracted) = 1

\* normalize_process_number(process_number)
normalize_process_number(process_number) ==
    LET extracted == extract_process_numbers(process_number)
    IN  IF extracted = <<>>
        THEN Raises("ProcessValidationError",
                    "No valid process number found in", process_number)
        ELSE Returns(extracted[1])

(***************************************************************************)
(* DocumentValidator                                                       *)
(***************************************************************************)
Letters ==
    {"a", "b", "c", "d", "e", "f", "g", "h", "i", "j", "k", "l", "m", "n",
     "o", "p", "q", "r", "s", "t", "u", "v", "w", "x", "y", "z",
     "A", "B", "C", "D", "E", "F", "G", "H", "I", "J", "K", "L", "M", "N",
     "O", "P", "Q", "R", "S", "T", "U", "V", "W", "X", "Y", "Z", "_"}

\* \w
WordChars == Digits \cup Letters

\* \b at the gap in front of position i
BoundaryAt(t, i) ==
    LET before == i > 1 /\ t[i - 1] \in WordChars
        after  == i <= Len(t) /\ t[i] \in WordChars
    IN  before # after

\* CPF_PATTERN at position i
CpfMatchAt(t, i) ==
    LET p2 == SkipOptional(t, i + 3, {"."})
        p3 == SkipOptional(t, p2 + 3, {"."})
        p4 == SkipOptional(t, p3 + 3, {"-"})
    IN  IF /\ DigitsAt(t, i, 3)
           /\ DigitsAt(t, p2, 3)
           /\ DigitsAt(t, p3, 3)
           /\ DigitsAt(t, p4, 2)
        THEN [ok |-> TRUE,
              groups |-> <<Slice(t, i, 3), Slice(t, p2, 3), Slice(t, p3, 3),
                           Slice(t, p4, 2)>>,
              next |-> p4 + 2]
        ELSE NoMatch

\* CNPJ_PATTERN at position i
CnpjMatchAt(t, i) ==
    LET p2 == SkipOptional(t, i + 2, {"."})
        p3 == SkipOptional(t, p2 + 3, {"."})
        p4 == SkipOptional(t, p3 + 3, {"/"})
        p5 == SkipOptional(t, p4 + 4, {"-"})
    IN  IF /\ DigitsAt(t, i, 2)
           /\ DigitsAt(t, p2, 3)
           /\ DigitsAt(t, p3, 3)
           /\ DigitsAt(t, p4, 4)
           /\ DigitsAt(t, p5, 2)
        THEN [ok |-> TRUE,
              groups |-> <<Slice(t, i, 2), Slice(t, p2, 3), Slice(t, p3, 3),
                           Slice(t, p4, 4), Slice(t, p5, 2)>>,
              next |-> p5 + 2]
        ELSE NoMatch

\* \b\d{11,14}\b at position i: the longest n in 11..14 with a boundary
\* behind it
RECURSIVE NumberMatchFrom(_, _, _)
NumberMatchFrom(t, i, n) ==
    IF n < 11 THEN NoMatch
    ELSE IF DigitsAt(t, i, n) /\ BoundaryAt(t, i + n)
    THEN [ok |-> TRUE, groups |-> Slice(t, i, n), next |-> i + n]
    ELSE NumberMatchFrom(t, i, n - 1)

NumberMatchAt(t, i) ==
    IF BoundaryAt(t, i) THEN NumberMatchFrom(t, i, 14) ELSE NoMatch

RECURSIVE FindAllCpf(_, _)
FindAllCpf(t, i) ==
    IF i > Len(t) THEN <<>>
    ELSE LET m == CpfMatchAt(t, i)
         IN  IF m.ok THEN <<m.groups>> \o FindAllCpf(t, m.next)
             ELSE FindAllCpf(t, i + 1)

RECURSIVE FindAllCnpj(_, _)
FindAllCnpj(t, i) ==
    IF i > Len(t) THEN <<>>
    ELSE LET m == CnpjMatchAt(t, i)
         IN  IF m.ok THEN <<m.groups>> \o FindAllCnpj(t, m.next)
             ELSE FindAllCnpj(t, i + 1)

RECURSIVE FindAllNumbers(_, _)
FindAllNumbers(t, i) ==
    IF i > Len(t) THEN <<>>
    ELSE LET m == NumberMatchAt(t, i)
         IN  IF m.ok THEN <<m.groups>> \o FindAllNumbers(t, m.next)
             ELSE FindAllNumbers(t, i + 1)

\* ''.join(match)
RECURSIVE Join(_)
Join(groups) == IF groups = <<>> THEN <<>> ELSE Head(groups) \o Join(Tail(groups))

\* sum(int(d[i]) * weights[i] for i in range(len(weights)))
RECURSIVE WeightedSum(_, _)
WeightedSum(ds, weights) ==
    IF weights = <<>> THEN 0
    ELSE DigitValue(Head(ds)) * Head(weights)
             + WeightedSum(Tail(ds), Tail(weights))

AllSame(ds) == \A j \in 1..Len(ds) : ds[j] = ds[1]

\* _format_cpf(cpf)
FormatCpf(cpf) ==
    LET clean == OnlyDigits(cpf)
    IN  IF Len(clean) # 11 THEN None
        ELSE SubSeq(clean, 1, 3) \o <<".">> \o SubSeq(clean, 4, 6) \o <<".">>
                 \o SubSeq(clean, 7, 9) \o <<"-">> \o SubSeq(clean, 10, 11)

\* _format_cnpj(cnpj)
FormatCnpj(cnpj) ==
    LET clean == OnlyDigits(cnpj)
    IN  IF Len(clean) # 14 THEN None
        ELSE SubSeq(clean, 1, 2) \o <<".">> \o SubSeq(clean, 3, 5) \o <<".">>
                 \o SubSeq(clean, 6, 8) \o <<"/">> \o SubSeq(clean, 9, 12)
                 \o <<"-">> \o SubSeq(clean, 13, 14)

\* a validation that keeps the remainder 10 as check digit
validate_cpf_remainder_kept(cpf) ==
    LET clean  == OnlyDigits(cpf)
        sum1   == WeightedSum(clean, <<10, 9, 8, 7, 6, 5, 4, 3, 2>>)
        digit1 == (sum1 * 10) % 11
        sum2   == WeightedSum(clean, <<11, 10, 9, 8, 7, 6, 5, 4, 3, 2>>)
        digit2 == (sum2 * 10) % 11
    IN  IF Len(clean) # 11 THEN FALSE
        ELSE IF AllSame(clean) THEN FALSE
        ELSE digit1 = DigitValue(clean[10]) /\ digit2 = DigitValue(clean[11])

\* validate_cpf(cpf)
validate_cpf(cpf) ==
    LET clean  == OnlyDigits(cpf)
        sum1   == WeightedSum(clean, <<10, 9, 8, 7, 6, 5, 4, 3, 2>>)
        digit1 == ((sum1 * 10) % 11) % 10
        sum2   == WeightedSum(clean, <<11, 10, 9, 8, 7, 6, 5, 4, 3, 2>>)
        digit2 == ((sum2 * 10) % 11) % 10
    IN  IF Len(clean) # 11 THEN FALSE
        ELSE IF AllSame(clean) THEN FALSE
        ELSE digit1 = DigitValue(clean[10]) /\ digit2 = DigitValue(clean[11])

\* a validation without the test for repeated digits
validate_cnpj_without_repeat_test(cnpj) ==
    LET clean  == OnlyDigits(cnpj)
        sum1   == WeightedSum(clean, <<5, 4, 3, 2, 9, 8, 7, 6, 5, 4, 3, 2>>)
        digit1 == IF sum1 % 11 >= 2 THEN 11 - (sum1 % 11) ELSE 0
        sum2   == WeightedSum(clean, <<6, 5, 4, 3, 2, 9, 8, 7, 6, 5, 4, 3, 2>>)
        digit2 == IF sum2 % 11 >= 2 THEN 11 - (sum2 % 11) ELSE 0
    IN  IF Len(clean) # 14 THEN FALSE
        ELSE digit1 = DigitValue(clean[13]) /\ digit2 = DigitValue(clean[14])

\* validate_cnpj(cnpj)
validate_cnpj(cnpj) ==
    LET clean  == OnlyDigits(cnpj)
        sum1   == WeightedSum(clean, <<5, 4, 3, 2, 9, 8, 7, 6, 5, 4, 3, 2>>)
        digit1 == IF sum1 % 11 >= 2 THEN 11 - (sum1 % 11) ELSE 0
        sum2   == WeightedSum(clean, <<6, 5, 4, 3, 2, 9, 8, 7, 6, 5, 4, 3, 2>>)
        digit2 == IF sum2 % 11 >= 2 THEN 11 - (sum2 % 11) ELSE 0
    IN  IF Len(clean) # 14 THEN FALSE
        ELSE IF AllSame(clean) THEN FALSE
        ELSE digit1 = DigitValue(clean[13]) /\ digit2 = DigitValue(clean[14])

\* CPF-shaped matches, formatted without validation
RECURSIVE ValidCpfsUnchecked(_)
ValidCpfsUnchecked(matches) ==
    IF matches = <<>> THEN <<>>
    ELSE LET formatted == FormatCpf(Join(Head(matches)))
         IN  (IF formatted # None THEN <<formatted>> ELSE <<>>)
                 \o ValidCpfsUnchecked(Tail(matches))

\* the pattern matches that validate, formatted
RECURSIVE ValidCpfs(_)
ValidCpfs(matches) ==
    IF matches = <<>> THEN <<>>
    ELSE LET formatted == FormatCpf(Join(Head(matches)))
         IN  (IF formatted # None /\ validate_cpf(formatted)
              THEN <<formatted>> ELSE <<>>) \o ValidCpfs(Tail(matches))

RECURSIVE ValidCnpjs(_)
ValidCnpjs(matches) ==
    IF matches = <<>> THEN <<>>
    ELSE LET formatted == FormatCnpj(Join(Head(matches)))
         IN  (IF formatted # None /\ validate_cnpj(formatted)
              THEN <<formatted>> ELSE <<>>) \o ValidCnpjs(Tail(matches))

InSeq(x, items) == \E j \in 1..Len(items) : items[j] = x

\* the numbers-only pass, appending to the documents found so far
RECURSIVE AddNumbers(_, _)
AddNumbers(documents, numbers) ==
    IF numbers = <<>> THEN documents
    ELSE LET number    == Head(numbers)
             formatted == IF Len(number) = 11 /\ validate_cpf(number)
                          THEN FormatCpf(number)
                          ELSE IF Len(number) = 14 /\ validate_cnpj(number)
                          THEN FormatCnpj(number)
                          ELSE None
         IN  AddNumbers(IF formatted # None /\ ~InSeq(formatted, documents)
                        THEN Append(documents, formatted) ELSE documents,
                        Tail(numbers))

\* remove duplicates by digits-only value while preserving order
RECURSIVE UniqueDocs(_, _)
UniqueDocs(documents, seen) ==
    IF documents = <<>> THEN <<>>
    ELSE LET clean == OnlyDigits(Head(documents))
         IN  IF clean \in seen THEN UniqueDocs(Tail(documents), seen)
             ELSE <<Head(documents)>>
                      \o UniqueDocs(Tail(documents), seen \cup {clean})

\* extract_documents(text)
extract_documents(text) ==
    LET t     == Strip(text)
        cpfs  == ValidCpfs(FindAllCpf(t, 1))
        cnpjs == ValidCnpjs(FindAllCnpj(t, 1))
        all   == AddNumbers(cpfs \o cnpjs, FindAllNumbers(t, 1))
    IN  UniqueDocs(all, {})

\* extract_first_document(text) / extract_first_valid_document(text)
extract_first_document(text) ==
    LET extracted == extract_documents(text)
    IN  IF extracted # <<>> THEN extracted[1] ELSE None

\* identify_document_type(document)
identify_document_type(document) ==
    LET clean == OnlyDigits(document)
    IN  IF Len(clean) = 11
        THEN (IF validate_cpf(document) THEN "CPF" ELSE "None")
        ELSE IF Len(clean) = 14
        THEN (IF validate_cnpj(document) THEN "CNPJ" ELSE "None")
        ELSE "None"

\* get_clean_document(document)
get_clean_document(document) == OnlyDigits(document)

\* normalize_document(document)
normalize_document(document) ==
    LET doc_type == identify_document_type(document)
    IN  IF doc_type = "CPF"
        THEN (IF FormatCpf(document) = None
              THEN Raises("DocumentValidationError", "Invalid CPF format",
                          document)
              ELSE Returns(FormatCpf(document)))
        ELSE IF doc_type = "CNPJ"
        THEN (IF FormatCnpj(document) = None
              THEN Raises("DocumentValidationError", "Invalid CNPJ format",
                          document)
              ELSE Returns(FormatCnpj(document)))
        ELSE Raises("DocumentValidationError", "Invalid document", document)


(***************************************************************************)
(* User messages                                                           *)
(***************************************************************************)
\* the process number of the test suite, fully punctuated: "processo 1234567-89.2023.1.01.0001"
TEXT_CNJ ==
    <<"p", "r", "o", "c", "e", "s", "s", "o", " ", "1", "2", "3", "4", "5",
      "6", "7", "-", "8", "9", ".", "2", "0", "2", "3", ".", "1", ".", "0",
      "1", ".", "0", "0", "0", "1">>

\* the same twenty digits with no punctuation: "12345678920231010001"
TEXT_CNJ_FLAT ==
    <<"1", "2", "3", "4", "5", "6", "7", "8", "9", "2", "0", "2", "3", "1",
      "0", "1", "0", "0", "0", "1">>

\* a process number whose year is out of range: "1234567-89.1990.1.01.0001"
TEXT_CNJ_OLD ==
    <<"1", "2", "3", "4", "5", "6", "7", "-", "8", "9", ".", "1", "9", "9",
      "0", ".", "1", ".", "0", "1", ".", "0", "0", "0", "1">>

\* a CPF: "CPF 123.456.789-09"
TEXT_CPF ==
    <<"C", "P", "F", " ", "1", "2", "3", ".", "4", "5", "6", ".", "7", "8",
      "9", "-", "0", "9">>

\* a CPF whose check digits are wrong: "CPF 123.456.789-00"
TEXT_CPF_BAD ==
    <<"C", "P", "F", " ", "1", "2", "3", ".", "4", "5", "6", ".", "7", "8",
      "9", "-", "0", "0">>

\* a CNPJ: "11.222.333/0001-81"
TEXT_CNPJ ==
    <<"1", "1", ".", "2", "2", "2", ".", "3", "3", "3", "/", "0", "0", "0",
      "1", "-", "8", "1">>

\* no digits at all: "ola"
TEXT_WORDS ==
    <<"o", "l", "a">>

\* the empty message: ""
TEXT_EMPTY ==
    <<>>

Texts ==
    {TEXT_CNJ, TEXT_CNJ_FLAT, TEXT_CNJ_OLD, TEXT_CPF, TEXT_CPF_BAD, TEXT_CNPJ,
     TEXT_WORDS, TEXT_EMPTY}

\* the twenty digits inside a sentence: "processo 12345678920231010001"
TEXT_CNJ_FLAT_WORDS ==
    <<"p", "r", "o", "c", "e", "s", "s", "o", " ", "1", "2", "3", "4", "5",
      "6", "7", "8", "9", "2", "0", "2", "3", "1", "0", "1", "0", "0", "0",
      "1">>

\* two process numbers: "1234567-89.2023.1.01.0001 e 7654321-12.2024.8.26.1234"
TEXT_CNJ_TWO ==
    <<"1", "2", "3", "4", "5", "6", "7", "-", "8", "9", ".", "2", "0", "2",
      "3", ".", "1", ".", "0", "1", ".", "0", "0", "0", "1", " ", "e", " ",
      "7", "6", "5", "4", "3", "2", "1", "-", "1", "2", ".", "2", "0", "2",
      "4", ".", "8", ".", "2", "6", ".", "1", "2", "3", "4">>

\* a year out of range, then a valid process number: "1234567-89.1990.1.01.0001 e 7654321-12.2024.8.26.1234"
TEXT_CNJ_OLD_THEN_VALID ==
    <<"1", "2", "3", "4", "5", "6", "7", "-", "8", "9", ".", "1", "9", "9",
      "0", ".", "1", ".", "0", "1", ".", "0", "0", "0", "1", " ", "e", " ",
      "7", "6", "5", "4", "3", "2", "1", "-", "1", "2", ".", "2", "0", "2",
      "4", ".", "8", ".", "2", "6", ".", "1", "2", "3", "4">>

\* a segment out of range, then a valid process number: "1234567-89.2023.5.01.0001 e 7654321-12.2024.8.26.1234"
TEXT_CNJ_SEGMENT_THEN_VALID ==
    <<"1", "2", "3", "4", "5", "6", "7", "-", "8", "9", ".", "2", "0", "2",
      "3", ".", "5", ".", "0", "1", ".", "0", "0", "0", "1", " ", "e", " ",
      "7", "6", "5", "4", "3", "2", "1", "-", "1", "2", ".", "2", "0", "2",
      "4", ".", "8", ".", "2", "6", ".", "1", "2", "3", "4">>

\* dashes for dots: the loose pattern only: "1234567-89-2023-1-01-0001"
TEXT_CNJ_DASHES ==
    <<"1", "2", "3", "4", "5", "6", "7", "-", "8", "9", "-", "2", "0", "2",
      "3", "-", "1", "-", "0", "1", "-", "0", "0", "0", "1">>

\* one number for the strict pattern, one for the loose pattern only: "7654321-12.2024.8.26.1234 e 1234567-89-2023-1-01-0001"
TEXT_CNJ_STRICT_AND_DASHES ==
    <<"7", "6", "5", "4", "3", "2", "1", "-", "1", "2", ".", "2", "0", "2",
      "4", ".", "8", ".", "2", "6", ".", "1", "2", "3", "4", " ", "e", " ",
      "1", "2", "3", "4", "5", "6", "7", "-", "8", "9", "-", "2", "0", "2",
      "3", "-", "1", "-", "0", "1", "-", "0", "0", "0", "1">>

\* twenty digits valid only as a whole: the flat pattern only: "1234567-76543211220248261234"
TEXT_CNJ_FLAT_ONLY ==
    <<"1", "2", "3", "4", "5", "6", "7", "-", "7", "6", "5", "4", "3", "2",
      "1", "1", "2", "2", "0", "2", "4", "8", "2", "6", "1", "2", "3", "4">>

\* the same process number punctuated and not: "1234567-89.2023.1.01.0001 12345678920231010001"
TEXT_CNJ_TWICE ==
    <<"1", "2", "3", "4", "5", "6", "7", "-", "8", "9", ".", "2", "0", "2",
      "3", ".", "1", ".", "0", "1", ".", "0", "0", "0", "1", " ", "1", "2",
      "3", "4", "5", "6", "7", "8", "9", "2", "0", "2", "3", "1", "0", "1",
      "0", "0", "0", "1">>

\* a CNPJ, then a CPF: "11.222.333/0001-81 e 123.456.789-09"
TEXT_CNPJ_THEN_CPF ==
    <<"1", "1", ".", "2", "2", "2", ".", "3", "3", "3", "/", "0", "0", "0",
      "1", "-", "8", "1", " ", "e", " ", "1", "2", "3", ".", "4", "5", "6",
      ".", "7", "8", "9", "-", "0", "9">>

\* a CPF, then a CNPJ: "123.456.789-09 e 11.222.333/0001-81"
TEXT_CPF_THEN_CNPJ ==
    <<"1", "2", "3", ".", "4", "5", "6", ".", "7", "8", "9", "-", "0", "9",
      " ", "e", " ", "1", "1", ".", "2", "2", "2", ".", "3", "3", "3", "/",
      "0", "0", "0", "1", "-", "8", "1">>

\* the same CPF punctuated and not: "123.456.789-09 e 12345678909"
TEXT_CPF_TWICE ==
    <<"1", "2", "3", ".", "4", "5", "6", ".", "7", "8", "9", "-", "0", "9",
      " ", "e", " ", "1", "2", "3", "4", "5", "6", "7", "8", "9", "0", "9">>

\* two CPFs: "529.982.247-25 e 123.456.789-09"
TEXT_CPF_TWO ==
    <<"5", "2", "9", ".", "9", "8", "2", ".", "2", "4", "7", "-", "2", "5",
      " ", "e", " ", "1", "2", "3", ".", "4", "5", "6", ".", "7", "8", "9",
      "-", "0", "9">>

\* dashes for dots after eight leading digits: "12345678-89-2023-1-01-0001"
TEXT_CNJ_LONG_DASHES ==
    <<"1", "2", "3", "4", "5", "6", "7", "8", "-", "8", "9", "-", "2", "0",
      "2", "3", "-", "1", "-", "0", "1", "-", "0", "0", "0", "1">>

\* a CPF written with blanks between its groups: "123 456 789 09"
TEXT_CPF_SPACED ==
    <<"1", "2", "3", " ", "4", "5", "6", " ", "7", "8", "9", " ", "0", "9">>

\* a valid CNPJ written as 14 digits: "11222333000181"
TEXT_CNPJ_FLAT ==
    <<"1", "1", "2", "2", "2", "3", "3", "3", "0", "0", "0", "1", "8", "1">>

\* a valid CNPJ as 14 digits whose first 11 digits are a
\* valid CPF: "12345678909053"
TEXT_CNPJ_CPF_PREFIX ==
    <<"1", "2", "3", "4", "5", "6", "7", "8", "9", "0", "9", "0", "5", "3">>

\* the messages given to the extraction functions
ExtractTexts ==
    Texts \cup
    {TEXT_CNJ_FLAT_WORDS, TEXT_CNJ_TWO, TEXT_CNJ_OLD_THEN_VALID,
     TEXT_CNJ_SEGMENT_THEN_VALID, TEXT_CNJ_DASHES,
     TEXT_CNJ_STRICT_AND_DASHES, TEXT_CNJ_FLAT_ONLY, TEXT_CNJ_TWICE,
     TEXT_CNPJ_THEN_CPF, TEXT_CPF_THEN_CNPJ, TEXT_CPF_TWICE, TEXT_CPF_TWO,
     TEXT_CNJ_LONG_DASHES, TEXT_CPF_SPACED, TEXT_CNPJ_FLAT,
     TEXT_CNPJ_CPF_PREFIX}

\* the messages given to the consult calls
ConsultTexts ==
    {TEXT_CNJ, TEXT_CNJ_OLD, TEXT_CPF, TEXT_CPF_BAD, TEXT_CNPJ, TEXT_WORDS,
     TEXT_EMPTY}

\* consult calls made on one tool
MaxCalls == 2

\* polling operations run on one PollingManager
MaxOperations == 2

(***************************************************************************)
(* Payloads of the remote API.  A JSON value is a dict (with its fields),  *)
(* null, or a non-empty value that is not a dict.                          *)
(***************************************************************************)
Dict(fields) ==
    [is_dict |-> TRUE, truthy |-> DOMAIN fields # {}, fields |-> fields]

NullValue == [is_dict |-> FALSE, truthy |-> FALSE, fields |-> <<>>]

ListValue == [is_dict |-> FALSE, truthy |-> TRUE, fields |-> <<>>]

\* dict.get(key, default)
Get(fields, key, default) ==
    IF key \in DOMAIN fields THEN fields[key] ELSE default

\* what client.initiate_search can do
InitiateOutcomes ==
    {[kind |-> "dict",
      body |-> [job_id |-> "job-1", user_id |-> "u-7", user_role |-> "ai_agent"]],
     [kind |-> "dict", body |-> [job_id |-> "job-2"]],
     [kind |-> "dict", body |-> [job_id |-> "None", user_id |-> "u-7"]],
     [kind |-> "dict", body |-> [job_id |-> ""]],
     [kind |-> "dict", body |-> <<>>],
     [kind |-> "api_error", body |-> <<>>],
     [kind |-> "other_error", body |-> <<>>]}

\* `not job_id`
Falsy(job_id) == job_id \in {"None", ""}

DetailFields(document) ==
    [total_processos |-> 2, documento |-> document,
     search_completed_at |-> "2025-01-01T00:00:00"]

\* what client.get_processes can do
ResultOutcomes(document) ==
    {[kind |-> "dict", body |-> Dict(DetailFields(document))],
     [kind |-> "dict", body |-> Dict(<<>>)],
     [kind |-> "dict",
      body |-> Dict([data_details |-> Dict(DetailFields(document))])],
     [kind |-> "dict", body |-> Dict([data |-> Dict(DetailFields(document))])],
     [kind |-> "dict", body |-> Dict([data |-> ListValue, total_processos |-> 1])],
     [kind |-> "api_error", body |-> NullValue],
     [kind |-> "other_error", body |-> NullValue]}

NoClient == [exists |-> FALSE, authenticated |-> FALSE, closed |-> FALSE]

NoResult == [status |-> "none"]

\* the local search_response before initiate_search has returned
Unassigned == [unassigned |-> TRUE]

\* the process environment, as a dict of the POLLING_* variables that are
\* set: none of them, or the interval variables only
NoEnvironment == <<>>

Environments ==
    {NoEnvironment,
     [POLLING_INITIAL_INTERVAL |-> Ticks(1), POLLING_MAX_INTERVAL |-> Ticks(5)]}

\* the polling part of ToolsConfig.from_environment(): os.getenv(name, default)
\* for each of the five variables; the multiplier is a pair <<num, den>>
from_environment(env) ==
    LET multiplier == Get(env, "POLLING_BACKOFF_MULTIPLIER", <<3, 2>>)
    IN  PollingConfig(Get(env, "POLLING_INITIAL_INTERVAL", Ticks(2)),
                      Get(env, "POLLING_MAX_INTERVAL", Ticks(30)),
                      multiplier[1], multiplier[2],
                      Get(env, "POLLING_MAX_WAIT_TIME", Ticks(900)),
                      Get(env, "POLLING_TIMEOUT_BUFFER", Ticks(30)))

\* no exception has been raised
NoException == [type |-> "none", text |-> "", detail |-> ""]

VARIABLES
    cfg,               \* PollingManager.config
    elapsed,           \* time.time() - PollingManager.start_time
    current_interval,  \* PollingManager.current_interval
    poll_count,        \* PollingManager.poll_count
    ppc,               \* position inside poll_until_complete
    callables,         \* the caller's progress callback and predicate
    checker_job,       \* the job_id bound in the status_checker closure
    status,            \* local `status` of poll_until_complete
    poll_result,       \* the status returned by poll_until_complete
    poll_error,        \* the statistics carried by PollingTimeoutError
    status_calls,      \* number of status_checker calls of this operation
    sleep_log,         \* durations of the time.sleep calls of this operation
    check_time,        \* total time spent inside status_checker
    absorbed,          \* whether the loop has swallowed an exception
    answered,          \* whether a status check of this operation returned
    iter,              \* calls made in the current loop iteration
    cb_arg,            \* argument of the last progress_callback call
    pred_arg,          \* argument of the last completion_checker call
    test_elapsed,      \* elapsed time seen by the last budget test
    polled_job,        \* job_id of the last status request
    remote_log,        \* remote operations of this call, repeated status
                       \* requests written once
    operations,        \* poll_until_complete calls made on this PollingManager
    environ,           \* os.environ: the POLLING_* variables that are set
    tool_kind,         \* "process" or "document": the tool class
    entry,             \* "method": tool.consult_*; "function": module level
    calls,             \* consult calls started so far
    cpc,               \* position inside the consult call
    user_input,        \* the argument of the call
    identifier,        \* the extracted process number or document
    client,            \* tool.client
    sent_identifier,   \* the identifier given to initiate_search
    fetched_identifier,\* the identifier given to get_processes
    search_response,   \* what initiate_search returned
    result,            \* what the call returns
    clients_created,   \* WebJusticeClient objects built during this call
    closes,            \* close() calls made on the client during this call
    raised,            \* the exception raised inside this call, where it arose
    threads,           \* concurrent calls of the module-level function
    managers,          \* the PollingManager objects of the concurrent calls
    clients,           \* the tools' clients of the concurrent calls
    fn,                \* the validator function applied, if any
    arg,               \* its argument
    ret                \* what it returned

pollVars == <<cfg, elapsed, current_interval, poll_count, ppc, callables,
              checker_job, status, poll_result, poll_error, status_calls,
              sleep_log, check_time, absorbed, iter, cb_arg, pred_arg,
              test_elapsed, polled_job, remote_log, operations, answered>>

consultVars == <<environ, tool_kind, entry, calls, cpc, user_input, identifier, client,
                 sent_identifier, fetched_identifier, search_response, result,
                 clients_created, closes, raised>>

concVars == <<threads, managers, clients>>

funVars == <<fn, arg, ret>>

vars == <<pollVars, consultVars, concVars, funVars>>

NoCalls == [checks |-> 0, callbacks |-> 0, predicates |-> 0]

NoStats == [elapsed_time |-> 0, poll_count |-> 0]

\* the log with one more remote operation
Logged(log, op) ==
    IF op = "status" /\ log # <<>> /\ log[Len(log)] = "status"
    THEN log ELSE Append(log, op)

(***************************************************************************)
(* PollingManager                                                          *)
(***************************************************************************)

\* a reset that keeps the interval the last operation had reached
reset_keeps_interval ==
    /\ elapsed' = 0
    /\ current_interval' = current_interval
    /\ poll_count' = 0

\* reset(): start_time = time.time(), so the elapsed time restarts at 0
reset ==
    /\ elapsed' = 0
    /\ current_interval' = cfg'.initial_interval
    /\ poll_count' = 0

\* a budget test that also demands room for the next sleep
should_continue_polling_lookahead ==
    elapsed + current_interval < cfg.max_wait_time - cfg.timeout_buffer

\* a budget test that always lets the first status check through
should_continue_polling_after_first ==
    poll_count = 0 \/ elapsed < cfg.max_wait_time - cfg.timeout_buffer

\* a budget test that forgets the buffer
should_continue_polling_without_buffer ==
    elapsed < cfg.max_wait_time

should_continue_polling ==
    elapsed < cfg.max_wait_time - cfg.timeout_buffer

\* a backoff without the cap of max_interval
NextIntervalUncapped(interval, c) ==
    (interval * c.backoff_num) \div c.backoff_den

NextInterval(interval, c) ==
    Min((interval * c.backoff_num) \div c.backoff_den, c.max_interval)

\* a wait that backs off before sleeping
wait_for_next_poll_backoff_first ==
    /\ elapsed' = elapsed + NextInterval(current_interval, cfg)
    /\ sleep_log' = Append(sleep_log, NextInterval(current_interval, cfg))
    /\ current_interval' = NextInterval(current_interval, cfg)
    /\ poll_count' = poll_count + 1

\* wait_for_next_poll(): sleep, then back off and count the poll
wait_for_next_poll ==
    /\ elapsed' = elapsed + current_interval
    /\ sleep_log' = Append(sleep_log, current_interval)
    /\ current_interval' = NextInterval(current_interval, cfg)
    /\ poll_count' = poll_count + 1

get_polling_stats ==
    [elapsed_time |-> elapsed, poll_count |-> poll_count]

\* the records of an operation that has not polled yet
FreshOperation ==
    /\ status' = NoStatus
    /\ poll_result' = NoStatus
    /\ poll_error' = NoStats
    /\ status_calls' = 0
    /\ sleep_log' = <<>>
    /\ check_time' = 0
    /\ absorbed' = FALSE
    /\ answered' = FALSE
    /\ iter' = NoCalls
    /\ cb_arg' = NoStatus
    /\ pred_arg' = NoStatus
    /\ test_elapsed' = 0
    /\ polled_job' = "none"

\* PollingManager(config).poll_until_complete(checker, predicate, callback)
\* called directly, with any configuration and any caller-supplied callables
PollUntilComplete ==
    /\ ppc = "idle"
    /\ \E c \in Configs, cb \in BOOLEAN, rz \in BOOLEAN :
          /\ cfg' = c
          /\ callables' = [has_callback |-> cb, may_raise |-> rz]
    /\ checker_job' = "none"
    /\ reset
    /\ FreshOperation
    /\ ppc' = "loop"
    /\ UNCHANGED remote_log
    /\ operations' = 1
    /\ UNCHANGED <<consultVars, concVars, funVars>>

\* poll_until_complete called once more on the PollingManager of an operation
\* that has returned, timed out or been interrupted: the configuration stays,
\* the callables are those of the new call
PollUntilCompleteAgain ==
    /\ ppc \in {"returned", "timeout", "interrupted"}
    /\ operations < MaxOperations
    /\ \E cb \in BOOLEAN, rz \in BOOLEAN :
          callables' = [has_callback |-> cb, may_raise |-> rz]
    /\ cfg' = cfg
    /\ checker_job' = "none"
    /\ reset
    /\ FreshOperation
    /\ ppc' = "loop"
    /\ operations' = operations + 1
    /\ UNCHANGED remote_log
    /\ UNCHANGED <<consultVars, concVars, funVars>>

\* poll_until_complete on a PollingManager built with any configuration the
\* dataclass accepts, validated or not
PollUntilCompleteAny ==
    /\ ppc = "idle"
    /\ \E c \in AnyConfigs, cb \in BOOLEAN, rz \in BOOLEAN :
          /\ cfg' = c
          /\ callables' = [has_callback |-> cb, may_raise |-> rz]
    /\ checker_job' = "none"
    /\ reset
    /\ FreshOperation
    /\ ppc' = "loop"
    /\ operations' = 1
    /\ UNCHANGED remote_log
    /\ UNCHANGED <<consultVars, concVars, funVars>>

\* while self.should_continue_polling(): -- the test passes.  The status of
\* the previous iteration is dead here (it is reassigned or never read again),
\* so the iteration starts with no status and no recorded calls.
LoopContinue ==
    /\ ppc = "loop"
    /\ should_continue_polling
    /\ test_elapsed' = elapsed
    /\ iter' = NoCalls
    /\ status' = NoStatus
    /\ cb_arg' = NoStatus
    /\ pred_arg' = NoStatus
    /\ ppc' = "check"
    /\ UNCHANGED <<cfg, elapsed, current_interval, poll_count, callables,
                   checker_job, poll_result, poll_error, status_calls,
                   sleep_log, check_time, absorbed, polled_job, remote_log>>
    /\ UNCHANGED <<operations, answered, consultVars, concVars,
                   funVars>>

\* the test fails: statistics, then raise PollingTimeoutError
LoopTimeout ==
    /\ ppc = "loop"
    /\ ~should_continue_polling
    /\ test_elapsed' = elapsed
    /\ poll_error' = get_polling_stats
    /\ ppc' = "timeout"
    /\ UNCHANGED <<cfg, elapsed, current_interval, poll_count, callables,
                   checker_job, status, poll_result, status_calls, sleep_log,
                   check_time, absorbed, iter, cb_arg, pred_arg, polled_job,
                   remote_log>>
    /\ UNCHANGED <<operations, answered, consultVars, concVars,
                   funVars>>

\* status = status_checker(), followed by the status.get(...) of the log line;
\* a checker that raises, or a payload that is not a dict, enters the handler
StatusCheck ==
    /\ ppc = "check"
    /\ \E d \in CheckDurations,
          outcome \in {"ready", "not_ready", "raises", "not_a_dict"} :
          /\ elapsed' = elapsed + d
          /\ check_time' = check_time + d
          /\ status_calls' = status_calls + 1
          /\ polled_job' = checker_job
          /\ remote_log' = Logged(remote_log, "status")
          /\ answered' = (answered \/ outcome \in {"ready", "not_ready"})
          /\ iter' = [iter EXCEPT !.checks = @ + 1]
          /\ IF outcome \in {"ready", "not_ready"}
             THEN /\ status' = [ready |-> (outcome = "ready"),
                                n |-> status_calls + 1]
                  /\ ppc' = "callback"
             ELSE /\ status' = status
                  /\ ppc' = "except"
    /\ UNCHANGED <<cfg, current_interval, poll_count, callables, checker_job,
                   poll_result, poll_error, sleep_log, absorbed, cb_arg,
                   pred_arg, test_elapsed>>
    /\ UNCHANGED <<operations, consultVars, concVars, funVars>>

\* an iteration that never reports progress
ProgressCallbackSkipped ==
    /\ ppc = "callback"
    /\ ppc' = "predicate"
    /\ UNCHANGED <<cfg, elapsed, current_interval, poll_count, callables,
                   checker_job, status, poll_result, poll_error, status_calls,
                   sleep_log, check_time, absorbed, iter, cb_arg, pred_arg,
                   test_elapsed, polled_job, remote_log>>
    /\ UNCHANGED <<operations, answered, consultVars, concVars,
                   funVars>>

\* if progress_callback: progress_callback(status)
ProgressCallback ==
    /\ ppc = "callback"
    /\ IF callables.has_callback
       THEN /\ cb_arg' = status
            /\ iter' = [iter EXCEPT !.callbacks = @ + 1]
            /\ \E raises \in {r \in BOOLEAN : r => callables.may_raise} :
                  ppc' = IF raises THEN "except" ELSE "predicate"
       ELSE /\ UNCHANGED <<cb_arg, iter>>
            /\ ppc' = "predicate"
    /\ UNCHANGED <<cfg, elapsed, current_interval, poll_count, callables,
                   checker_job, status, poll_result, poll_error, status_calls,
                   sleep_log, check_time, absorbed, pred_arg, test_elapsed,
                   polled_job, remote_log>>
    /\ UNCHANGED <<operations, answered, consultVars, concVars,
                   funVars>>

\* if completion_checker(status): ... return status
CompletionCheck ==
    /\ ppc = "predicate"
    /\ pred_arg' = status
    /\ iter' = [iter EXCEPT !.predicates = @ + 1]
    /\ \E raises \in {r \in BOOLEAN : r => callables.may_raise} :
          IF raises
          THEN /\ ppc' = "except"
               /\ UNCHANGED poll_result
          ELSE IF status.ready
          THEN /\ ppc' = "returned"
               /\ poll_result' = status
          ELSE /\ ppc' = "wait"
               /\ UNCHANGED poll_result
    /\ UNCHANGED <<cfg, elapsed, current_interval, poll_count, callables,
                   checker_job, status, poll_error, status_calls, sleep_log,
                   check_time, absorbed, cb_arg, test_elapsed, polled_job,
                   remote_log>>
    /\ UNCHANGED <<operations, answered, consultVars, concVars,
                   funVars>>

\* not complete: self.wait_for_next_poll(), back to the loop test
WaitNormal ==
    /\ ppc = "wait"
    /\ wait_for_next_poll
    /\ ppc' = "loop"
    /\ UNCHANGED <<cfg, callables, checker_job, status, poll_result,
                   poll_error, status_calls, check_time, absorbed, iter,
                   cb_arg, pred_arg, test_elapsed, polled_job, remote_log>>
    /\ UNCHANGED <<operations, answered, consultVars, concVars,
                   funVars>>

\* a handler that logs and re-raises
WaitAfterErrorReraises ==
    /\ ppc = "except"
    /\ absorbed' = TRUE
    /\ ppc' = "raised"
    /\ UNCHANGED <<cfg, elapsed, current_interval, poll_count, callables,
                   checker_job, status, poll_result, poll_error, status_calls,
                   sleep_log, check_time, iter, cb_arg, pred_arg, test_elapsed,
                   polled_job, remote_log>>
    /\ UNCHANGED <<operations, answered, consultVars, concVars,
                   funVars>>

\* except Exception: log, self.wait_for_next_poll(), back to the loop test
WaitAfterError ==
    /\ ppc = "except"
    /\ absorbed' = TRUE
    /\ wait_for_next_poll
    /\ ppc' = "loop"
    /\ UNCHANGED <<cfg, callables, checker_job, status, poll_result,
                   poll_error, status_calls, check_time, iter, cb_arg,
                   pred_arg, test_elapsed, polled_job, remote_log>>
    /\ UNCHANGED <<operations, answered, consultVars, concVars,
                   funVars>>

\* a KeyboardInterrupt delivered while the status checker runs: it is not an
\* Exception, so the handler does not catch it and the operation is left
KeyboardInterrupt ==
    /\ ppc = "check"
    /\ ppc' = "interrupted"
    /\ UNCHANGED <<cfg, elapsed, current_interval, poll_count, callables,
                   checker_job, status, poll_result, poll_error, status_calls,
                   sleep_log, check_time, absorbed, iter, cb_arg, pred_arg,
                   test_elapsed, polled_job, remote_log>>
    /\ UNCHANGED <<operations, answered, consultVars, concVars,
                   funVars>>

PollStep ==
    \/ LoopContinue
    \/ LoopTimeout
    \/ StatusCheck
    \/ ProgressCallback
    \/ CompletionCheck
    \/ WaitNormal
    \/ WaitAfterError

\* no polling operation has been started
PollIdle ==
    /\ cfg = DefaultConfig
    /\ elapsed = 0
    /\ current_interval = DefaultConfig.initial_interval
    /\ poll_count = 0
    /\ ppc = "idle"
    /\ callables = [has_callback |-> FALSE, may_raise |-> FALSE]
    /\ checker_job = "none"
    /\ status = NoStatus
    /\ poll_result = NoStatus
    /\ poll_error = NoStats
    /\ status_calls = 0
    /\ sleep_log = <<>>
    /\ check_time = 0
    /\ absorbed = FALSE
    /\ answered = FALSE
    /\ iter = NoCalls
    /\ cb_arg = NoStatus
    /\ pred_arg = NoStatus
    /\ test_elapsed = 0
    /\ polled_job = "none"
    /\ remote_log = <<>>
    /\ operations = 0

\* the PollingManager is local to poll_search_completion: it is gone once
\* that function has returned or raised
DiscardPolling ==
    /\ cfg' = DefaultConfig
    /\ elapsed' = 0
    /\ current_interval' = DefaultConfig.initial_interval
    /\ poll_count' = 0
    /\ ppc' = "idle"
    /\ callables' = [has_callback |-> FALSE, may_raise |-> FALSE]
    /\ checker_job' = "none"
    /\ operations' = 0
    /\ FreshOperation

\* no consult call has been made
ConsultIdle ==
    /\ calls = 0
    /\ cpc = "idle"
    /\ user_input = <<>>
    /\ identifier = None
    /\ client = NoClient
    /\ sent_identifier = None
    /\ fetched_identifier = None
    /\ search_response = Unassigned
    /\ result = NoResult
    /\ clients_created = 0
    /\ closes = 0
    /\ raised = NoException

(***************************************************************************)
(* The validators applied to one input: the input is drawn first, then one *)
(* of the functions is applied to it.                                      *)
(***************************************************************************)

\* the digits of a numeral, one character each
Chars(ds) == [j \in 1..Len(ds) |-> CHOOSE ch \in Digits : DigitValue(ch) = ds[j]]

\* nine-digit CPF bases: the test suite's CPF (first remainder 10), another
\* valid one, the repeated digits, and three more
CpfBases ==
    {Chars(<<1, 2, 3, 4, 5, 6, 7, 8, 9>>), Chars(<<5, 2, 9, 9, 8, 2, 2, 4, 7>>),
     Chars(<<1, 1, 1, 1, 1, 1, 1, 1, 1>>), Chars(<<0, 0, 0, 0, 0, 0, 0, 0, 0>>),
     Chars(<<9, 9, 9, 9, 9, 9, 9, 9, 9>>), Chars(<<1, 0, 0, 0, 0, 0, 0, 0, 1>>)}

\* every base with every pair of check digits
CpfInputs == {base \o <<a, b>> : base \in CpfBases, a \in Digits, b \in Digits}

\* twelve-digit CNPJ bases: the test suite's CNPJ, the repeated digits, and
\* bases whose sums leave the remainders 0, 1 and 10
CnpjBases ==
    {Chars(<<1, 1, 2, 2, 2, 3, 3, 3, 0, 0, 0, 1>>),
     Chars(<<0, 0, 0, 0, 0, 0, 0, 0, 0, 0, 0, 0>>),
     Chars(<<1, 1, 1, 1, 1, 1, 1, 1, 1, 1, 1, 1>>),
     Chars(<<0, 0, 0, 0, 0, 0, 0, 0, 0, 0, 0, 1>>),
     Chars(<<0, 0, 0, 0, 0, 0, 0, 0, 0, 0, 0, 6>>),
     Chars(<<0, 0, 0, 0, 0, 0, 0, 0, 0, 0, 0, 5>>)}

CnpjInputs == {base \o <<a, b>> : base \in CnpjBases, a \in Digits, b \in Digits}

FunInputs == CpfInputs \cup CnpjInputs \cup ExtractTexts

NoReturn == [returned |-> FALSE]

\* no function has been applied
FunIdle ==
    /\ fn = "none"
    /\ ret = NoReturn

\* concurrent calls of consult_process(user_input) / consult_document
NumCalls == 2

Calls == 1..NumCalls

\* what the remote side does for one call: whether the client can be built,
\* the answer to the initiation, the status check that reports the job ready
\* (0: never), and the answer to the result fetch
Script(new_client, initiate, ready_at, fetch) ==
    [client |-> new_client, initiate |-> initiate, ready_at |-> ready_at,
     fetch |-> fetch]

Scripts ==
    {Script("fails", "job", 1, "ok"),
     Script("ok", "no_job", 1, "ok"),
     Script("ok", "api_error", 1, "ok"),
     Script("ok", "job", 1, "ok"),
     Script("ok", "job", 3, "ok"),
     Script("ok", "job", 2, "api_error"),
     Script("ok", "job", 0, "ok")}

NoManager == [exists |-> FALSE, elapsed |-> 0, current_interval |-> 0,
              poll_count |-> 0]

IdleThread ==
    [pc |-> "idle", script |-> Script("ok", "job", 1, "ok"), checks |-> 0,
     code |-> "none", stats |-> NoStats]

\* no concurrent call has been made
ConcIdle ==
    /\ threads = [p \in Calls |-> IdleThread]
    /\ managers = [p \in Calls |-> NoManager]
    /\ clients = [p \in Calls |-> NoClient]

PollInit ==
    /\ PollIdle
    /\ ConsultIdle
    /\ ConcIdle
    /\ FunIdle
    /\ arg = <<>>
    /\ environ = NoEnvironment
    /\ tool_kind = "process"
    /\ entry = "method"

\* the polling engine used on its own
NextPoll ==
    \/ PollUntilComplete
    \/ PollUntilCompleteAgain
    \/ KeyboardInterrupt
    \/ PollStep

SpecPoll == PollInit /\ [][NextPoll]_vars

\* one polling operation under any configuration; the program runs every
\* step of the loop as soon as the previous one is over
NextPollAny ==
    \/ PollUntilCompleteAny
    \/ PollStep

SpecPollAny == PollInit /\ [][NextPollAny]_vars /\ WF_vars(PollStep)

(***************************************************************************)
(* ProcessConsultationTool and DocumentConsultationTool                    *)
(***************************************************************************)
ToolName(kind) ==
    IF kind = "process" THEN "process_consultation" ELSE "document_consultation"

NoIdentifierCode(kind) ==
    IF kind = "process" THEN "NO_PROCESS_FOUND" ELSE "NO_DOCUMENT_FOUND"

\* an error response that also says 'success'
ErrorResponseMarkedSuccess(kind, code, text, detail) ==
    [status |-> "success",
     tool |-> ToolName(kind),
     error |-> [code |-> code, message |-> [text |-> text, detail |-> detail]],
     data |-> "None"]

\* _create_error_response(error_code, error_message)
ErrorResponse(kind, code, text, detail) ==
    [status |-> "error",
     tool |-> ToolName(kind),
     error |-> [code |-> code, message |-> [text |-> text, detail |-> detail]],
     data |-> "None"]

\* an exception that leaves consult_process / consult_document
Escaped(exc) == [status |-> "raised", exception |-> exc]

\* ProcessConsultationError / DocumentConsultationError(f"{text}: {detail}")
ConsultationError(text, detail) ==
    [type |-> "ConsultationError", text |-> text, detail |-> detail]

\* any other exception, with its message
OtherError(type, detail) == [type |-> type, text |-> "", detail |-> detail]

\* except Exception in _get_client: everything becomes the tool's own error
WrapClientError(exc) ==
    ConsultationError("Failed to initialize API client", exc.detail)

\* a wrapper that lets the API error pass through
WrapApiErrorUnwrapped(text, exc) == exc

\* except WebJusticeAPIError in _initiate_search / _get_search_results: an API
\* error becomes the tool's own error, anything else passes through
WrapApiError(text, exc) ==
    IF exc.type = "WebJusticeAPIError"
    THEN ConsultationError(text, exc.detail)
    ELSE exc

\* a handler that reports every failure of the polling alike
WrapPollingErrorAlike(exc) ==
    ConsultationError("Error during polling", exc.detail)

\* except PollingTimeoutError / WebJusticeAPIError in _poll_for_completion
WrapPollingError(exc) ==
    IF exc.type = "PollingTimeoutError"
    THEN ConsultationError("Search timed out", exc.detail)
    ELSE IF exc.type = "WebJusticeAPIError"
    THEN ConsultationError("Error during polling", exc.detail)
    ELSE exc

\* a call whose only handler is the one for the tool's own error class
HandleOwnErrorsOnly(kind, exc) ==
    IF exc.type = "ConsultationError"
    THEN ErrorResponse(kind, "CONSULTATION_ERROR", exc.text, exc.detail)
    ELSE Escaped(exc)

\* a call that reports every exception as a consultation error
HandleAllAsConsultationError(kind, exc) ==
    ErrorResponse(kind, "CONSULTATION_ERROR", exc.text, exc.detail)

\* the two except clauses of consult_process / consult_document
HandleException(kind, exc) ==
    IF exc.type = "ConsultationError"
    THEN ErrorResponse(kind, "CONSULTATION_ERROR", exc.text, exc.detail)
    ELSE ErrorResponse(kind, "UNEXPECTED_ERROR",
                       "An unexpected error occurred", exc.detail)

SearchInfo(search_info) ==
    [job_id |-> Get(search_info, "job_id", "None"),
     user_id |-> Get(search_info, "user_id", "None"),
     user_role |-> Get(search_info, "user_role", "None")]

Summary(details, searched) ==
    [total_processes |-> Get(details.fields, "total_processos", 0),
     document_searched |-> Get(details.fields, "documento", searched),
     search_completed_at |-> Get(details.fields, "search_completed_at", "None")]

\* results.get('data_details') or results.get('data') or results
ProcessDetails(results) ==
    LET data_details == Get(results.fields, "data_details", NullValue)
        data         == Get(results.fields, "data", NullValue)
    IN  IF data_details.truthy THEN data_details
        ELSE IF data.truthy THEN data
        ELSE results

\* details.get raises AttributeError when the nested value is not a dict
DetailsError(results) ==
    IF ProcessDetails(results).is_dict
    THEN NoException
    ELSE OtherError("AttributeError", "object has no attribute 'get'")

\* ProcessConsultationTool._create_success_response
ProcessSuccessResponse(results, process_number, search_info) ==
    LET details == ProcessDetails(results)
    IN  IF DetailsError(results) # NoException
        THEN HandleException("process", DetailsError(results))
        ELSE [status |-> "success",
              tool |-> "process_consultation",
              query |-> [process_number |-> process_number,
                         search_type |-> "process"],
              search_info |-> SearchInfo(search_info),
              data_details |-> results,
              summary |-> Summary(details, process_number)]

\* DocumentConsultationTool._create_success_response
DocumentSuccessResponse(results, original_document, doc_type, search_info) ==
    [status |-> "success",
     tool |-> "document_consultation",
     query |-> [document |-> original_document,
                document_type |-> doc_type,
                search_type |-> "document"],
     search_info |-> SearchInfo(search_info),
     data |-> results,
     summary |-> Summary(results, original_document)]

\* extract_first_process / extract_first_document, by tool
ExtractIdentifier(kind, text) ==
    IF kind = "process" THEN extract_first_process(text)
    ELSE extract_first_document(text)

\* a remote call that is given the formatted identifier as extracted
ApiIdentifierAsExtracted(kind, id) == id

\* the identifier handed to the remote API
ApiIdentifier(kind, id) ==
    IF kind = "process" THEN id ELSE get_clean_document(id)

\* a call that goes on without an identifier
ConsultCallWithoutTest ==
    /\ cpc \in {"idle", "done"}
    /\ calls < MaxCalls
    /\ calls' = calls + 1
    /\ \E text \in ConsultTexts :
          /\ user_input' = text
          /\ identifier' = ExtractIdentifier(tool_kind, text)
    /\ result' = NoResult
    /\ cpc' = "get_client"
    /\ client' = IF entry = "function" THEN NoClient ELSE client
    /\ sent_identifier' = None
    /\ fetched_identifier' = None
    /\ search_response' = Unassigned
    /\ clients_created' = 0
    /\ closes' = 0
    /\ raised' = NoException
    /\ DiscardPolling
    /\ remote_log' = <<>>
    /\ UNCHANGED <<environ, tool_kind, entry>>
    /\ UNCHANGED <<concVars, funVars>>

\* consult_process(user_input) / consult_document(user_input) is entered:
\* the identifier is extracted, and without one the call is over
ConsultCall ==
    /\ cpc \in {"idle", "done"}
    /\ calls < MaxCalls
    /\ calls' = calls + 1
    /\ \E text \in ConsultTexts :
          /\ user_input' = text
          /\ identifier' = ExtractIdentifier(tool_kind, text)
          /\ IF ExtractIdentifier(tool_kind, text) = None
             THEN /\ result' = ErrorResponse(tool_kind,
                                   NoIdentifierCode(tool_kind),
                                   "No valid identifier found in your message",
                                   "")
                  /\ cpc' = "finally"
             ELSE /\ result' = NoResult
                  /\ cpc' = "get_client"
    /\ client' = IF entry = "function" THEN NoClient ELSE client
    /\ sent_identifier' = None
    /\ fetched_identifier' = None
    /\ search_response' = Unassigned
    /\ clients_created' = 0
    /\ closes' = 0
    /\ raised' = NoException
    /\ DiscardPolling
    /\ remote_log' = <<>>
    /\ UNCHANGED <<environ, tool_kind, entry>>
    /\ UNCHANGED <<concVars, funVars>>

\* client = self._get_client()
GetClient ==
    /\ cpc = "get_client"
    /\ IF client.exists
       THEN /\ cpc' = "initiate"
            /\ UNCHANGED <<client, result, clients_created, remote_log,
                           raised>>
       ELSE \E outcome \in {"constructor_raises", "authentication_fails",
                            "authenticated"} :
              CASE outcome = "constructor_raises" ->
                     /\ client' = NoClient
                     /\ clients_created' = clients_created
                     /\ remote_log' = Logged(remote_log, "create")
                     /\ raised' = OtherError("ValueError",
                                              "API key is required")
                     /\ result' = HandleException(tool_kind,
                            WrapClientError(raised'))
                     /\ cpc' = "finally"
                [] outcome = "authentication_fails" ->
                     /\ client' = [exists |-> TRUE, authenticated |-> FALSE,
                                   closed |-> FALSE]
                     /\ clients_created' = clients_created + 1
                     /\ remote_log' =
                            Logged(Logged(remote_log, "create"), "auth")
                     /\ raised' = ConsultationError("",
                                        "API authentication failed")
                     /\ result' = HandleException(tool_kind,
                            WrapClientError(raised'))
                     /\ cpc' = "finally"
                [] outcome = "authenticated" ->
                     /\ client' = [exists |-> TRUE, authenticated |-> TRUE,
                                   closed |-> FALSE]
                     /\ clients_created' = clients_created + 1
                     /\ remote_log' =
                            Logged(Logged(remote_log, "create"), "auth")
                     /\ result' = result
                     /\ raised' = raised
                     /\ cpc' = "initiate"
    /\ UNCHANGED <<cfg, elapsed, current_interval, poll_count, ppc, callables,
                   checker_job, status, poll_result, poll_error, status_calls,
                   sleep_log, check_time, absorbed, iter, cb_arg, pred_arg,
                   test_elapsed, polled_job, operations, answered>>
    /\ UNCHANGED <<environ, tool_kind, entry, calls, user_input, identifier,
                   sent_identifier, fetched_identifier, search_response,
                   closes>>
    /\ UNCHANGED <<concVars, funVars>>

\* a call that tests the job_id against None only
InitiateSearchTestsNoneOnly ==
    /\ cpc = "initiate"
    /\ sent_identifier' = ApiIdentifier(tool_kind, identifier)
    /\ remote_log' = Logged(remote_log, "initiate")
    /\ \E outcome \in InitiateOutcomes :
          CASE outcome.kind = "api_error" ->
                 /\ search_response' = search_response
                 /\ raised' = OtherError("WebJusticeAPIError",
                                          "Failed to initiate search: HTTP 500")
                 /\ result' = HandleException(tool_kind,
                        WrapApiError("Failed to initiate search", raised'))
                 /\ cpc' = "finally"
            [] outcome.kind = "other_error" ->
                 /\ search_response' = search_response
                 /\ raised' = OtherError("Exception", "malformed response")
                 /\ result' = HandleException(tool_kind,
                        WrapApiError("Failed to initiate search", raised'))
                 /\ cpc' = "finally"
            [] outcome.kind = "dict" ->
                 /\ search_response' = outcome.body
                 /\ raised' = raised
                 /\ IF Get(outcome.body, "job_id", "None") = "None"
                    THEN /\ result' = ErrorResponse(tool_kind,
                                "SEARCH_INITIATION_FAILED",
                                "Failed to initiate search - no job ID returned",
                                "")
                         /\ cpc' = "finally"
                    ELSE /\ result' = result
                         /\ cpc' = "poll"
    /\ UNCHANGED <<cfg, elapsed, current_interval, poll_count, ppc, callables,
                   checker_job, status, poll_result, poll_error, status_calls,
                   sleep_log, check_time, absorbed, iter, cb_arg, pred_arg,
                   test_elapsed, polled_job, operations, answered>>
    /\ UNCHANGED <<environ, tool_kind, entry, calls, user_input, identifier, client,
                   fetched_identifier, clients_created, closes>>
    /\ UNCHANGED <<concVars, funVars>>

\* search_response = self._initiate_search(client, identifier), and the
\* test of its job_id
InitiateSearch ==
    /\ cpc = "initiate"
    /\ sent_identifier' = ApiIdentifier(tool_kind, identifier)
    /\ remote_log' = Logged(remote_log, "initiate")
    /\ \E outcome \in InitiateOutcomes :
          CASE outcome.kind = "api_error" ->
                 /\ search_response' = search_response
                 /\ raised' = OtherError("WebJusticeAPIError",
                                          "Failed to initiate search: HTTP 500")
                 /\ result' = HandleException(tool_kind,
                        WrapApiError("Failed to initiate search", raised'))
                 /\ cpc' = "finally"
            [] outcome.kind = "other_error" ->
                 /\ search_response' = search_response
                 /\ raised' = OtherError("Exception", "malformed response")
                 /\ result' = HandleException(tool_kind,
                        WrapApiError("Failed to initiate search", raised'))
                 /\ cpc' = "finally"
            [] outcome.kind = "dict" ->
                 /\ search_response' = outcome.body
                 /\ raised' = raised
                 /\ IF Falsy(Get(outcome.body, "job_id", "None"))
                    THEN /\ result' = ErrorResponse(tool_kind,
                                "SEARCH_INITIATION_FAILED",
                                "Failed to initiate search - no job ID returned",
                                "")
                         /\ cpc' = "finally"
                    ELSE /\ result' = result
                         /\ cpc' = "poll"
    /\ UNCHANGED <<cfg, elapsed, current_interval, poll_count, ppc, callables,
                   checker_job, status, poll_result, poll_error, status_calls,
                   sleep_log, check_time, absorbed, iter, cb_arg, pred_arg,
                   test_elapsed, polled_job, operations, answered>>
    /\ UNCHANGED <<environ, tool_kind, entry, calls, user_input, identifier, client,
                   fetched_identifier, clients_created, closes>>
    /\ UNCHANGED <<concVars, funVars>>

\* a status checker bound to the searched identifier instead of the job
PollForCompletionByIdentifier ==
    /\ cpc = "poll"
    /\ cfg' = DefaultConfig
    /\ callables' = [has_callback |-> TRUE, may_raise |-> FALSE]
    /\ checker_job' = "identifier"
    /\ reset
    /\ FreshOperation
    /\ operations' = 1
    /\ ppc' = "loop"
    /\ cpc' = "polling"
    /\ UNCHANGED remote_log
    /\ UNCHANGED <<environ, tool_kind, entry, calls, user_input, identifier, client,
                   sent_identifier, fetched_identifier, search_response,
                   result, clients_created, closes, raised>>
    /\ UNCHANGED <<concVars, funVars>>

\* self._poll_for_completion -> poll_search_completion(client, job_id, cb):
\* a new PollingManager with the default configuration starts polling
PollForCompletion ==
    /\ cpc = "poll"
    /\ cfg' = DefaultConfig
    /\ callables' = [has_callback |-> TRUE, may_raise |-> FALSE]
    /\ checker_job' = search_response.job_id
    /\ reset
    /\ FreshOperation
    /\ operations' = 1
    /\ ppc' = "loop"
    /\ cpc' = "polling"
    /\ UNCHANGED remote_log
    /\ UNCHANGED <<environ, tool_kind, entry, calls, user_input, identifier, client,
                   sent_identifier, fetched_identifier, search_response,
                   result, clients_created, closes, raised>>
    /\ UNCHANGED <<concVars, funVars>>

\* except PollingTimeoutError in _poll_for_completion
PollTimedOut ==
    /\ cpc = "polling"
    /\ ppc = "timeout"
    /\ raised' = OtherError("PollingTimeoutError", "Polling timeout")
    /\ result' = HandleException(tool_kind, WrapPollingError(raised'))
    /\ cpc' = "finally"
    /\ DiscardPolling
    /\ UNCHANGED remote_log
    /\ UNCHANGED <<environ, tool_kind, entry, calls, user_input, identifier, client,
                   sent_identifier, fetched_identifier, search_response,
                   clients_created, closes>>
    /\ UNCHANGED <<concVars, funVars>>

\* the message of get_processes for HTTP 425 (Too Early)
TooEarly == "Search not complete: not ready yet"

\* results = self._get_search_results(client, identifier), and the response
GetSearchResults ==
    /\ cpc = "polling"
    /\ ppc = "returned"
    /\ fetched_identifier' = ApiIdentifier(tool_kind, identifier)
    /\ remote_log' = Logged(remote_log, "results")
    /\ \E outcome \in ResultOutcomes(ApiIdentifier(tool_kind, identifier)) :
          CASE outcome.kind = "api_error" ->
                 /\ raised' = OtherError("WebJusticeAPIError", TooEarly)
                 /\ result' = HandleException(tool_kind,
                        WrapApiError("Failed to retrieve results", raised'))
            [] outcome.kind = "other_error" ->
                 /\ raised' = OtherError("Exception", "malformed response")
                 /\ result' = HandleException(tool_kind,
                        WrapApiError("Failed to retrieve results", raised'))
            [] outcome.kind = "dict" ->
                 IF tool_kind = "process"
                 THEN /\ raised' = DetailsError(outcome.body)
                      /\ result' = ProcessSuccessResponse(outcome.body,
                                        identifier, search_response)
                 ELSE /\ raised' = NoException
                      /\ result' = DocumentSuccessResponse(outcome.body,
                                        identifier,
                                        identify_document_type(identifier),
                                        search_response)
    /\ cpc' = "finally"
    /\ DiscardPolling
    /\ UNCHANGED <<environ, tool_kind, entry, calls, user_input, identifier, client,
                   sent_identifier, search_response, clients_created, closes>>
    /\ UNCHANGED <<concVars, funVars>>

\* a return that closes only a client that has authenticated
ConsultReturnClosesAuthenticated ==
    /\ cpc = "finally"
    /\ IF entry = "function" /\ client.exists /\ client.authenticated
       THEN /\ client' = [client EXCEPT !.closed = TRUE]
            /\ closes' = closes + 1
       ELSE UNCHANGED <<client, closes>>
    /\ cpc' = "done"
    /\ UNCHANGED pollVars
    /\ UNCHANGED <<environ, tool_kind, entry, calls, user_input, identifier,
                   sent_identifier, fetched_identifier, search_response,
                   result, clients_created, raised>>
    /\ UNCHANGED <<concVars, funVars>>

\* the call returns; the module-level function first runs tool.close()
ConsultReturn ==
    /\ cpc = "finally"
    /\ IF entry = "function" /\ client.exists
       THEN /\ client' = [client EXCEPT !.closed = TRUE]
            /\ closes' = closes + 1
       ELSE UNCHANGED <<client, closes>>
    /\ cpc' = "done"
    /\ UNCHANGED pollVars
    /\ UNCHANGED <<environ, tool_kind, entry, calls, user_input, identifier,
                   sent_identifier, fetched_identifier, search_response,
                   result, clients_created, raised>>
    /\ UNCHANGED <<concVars, funVars>>

Init ==
    /\ PollIdle
    /\ ConsultIdle
    /\ ConcIdle
    /\ FunIdle
    /\ arg = <<>>
    /\ environ \in Environments
    /\ tool_kind \in {"process", "document"}
    /\ entry \in {"method", "function"}

Next ==
    \/ ConsultCall
    \/ GetClient
    \/ InitiateSearch
    \/ PollForCompletion
    \/ PollStep
    \/ PollTimedOut
    \/ GetSearchResults
    \/ ConsultReturn

Spec == Init /\ [][Next]_vars

TypeOK ==
    /\ cfg \in Configs
    /\ ppc \in {"idle", "loop", "check", "callback", "predicate", "wait",
                "except", "returned", "timeout", "raised",
                "interrupted"}
    /\ cpc \in {"idle", "get_client", "initiate", "poll", "polling",
                "finally", "done"}
    /\ elapsed \in Nat
    /\ poll_count \in Nat
    /\ calls \in 0..MaxCalls
(***************************************************************************)
(* Concurrent calls of the module-level functions.  Every call builds its  *)
(* own tool, hence its own client, and poll_search_completion builds its   *)
(* own PollingManager.                                                     *)
(***************************************************************************)

\* tool = ProcessConsultationTool(): the tool, and so the client, of call p
ToolOf(p) == p

\* one PollingManager for every call
ManagerOfShared(p) == 1

\* polling_manager = PollingManager(): the manager of call p
ManagerOf(p) == p

\* consult_process(user_input) is entered by call p
ConcCall(p) ==
    /\ threads[p].pc = "idle"
    /\ \E script \in Scripts :
          threads' = [threads EXCEPT ![p] =
                         [IdleThread EXCEPT !.pc = "get_client",
                                            !.script = script]]
    /\ UNCHANGED <<managers, clients>>
    /\ UNCHANGED <<pollVars, consultVars, funVars>>

\* client = self._get_client() on the new tool of call p
ConcGetClient(p) ==
    /\ threads[p].pc = "get_client"
    /\ IF clients[ToolOf(p)].exists
       THEN /\ threads' = [threads EXCEPT ![p].pc = "initiate"]
            /\ UNCHANGED clients
       ELSE IF threads[p].script.client = "fails"
       THEN /\ threads' = [threads EXCEPT ![p].pc = "finally",
                                          ![p].code = "CONSULTATION_ERROR"]
            /\ clients' = [clients EXCEPT ![ToolOf(p)] =
                              [exists |-> TRUE, authenticated |-> FALSE,
                               closed |-> FALSE]]
       ELSE /\ threads' = [threads EXCEPT ![p].pc = "initiate"]
            /\ clients' = [clients EXCEPT ![ToolOf(p)] =
                              [exists |-> TRUE, authenticated |-> TRUE,
                               closed |-> FALSE]]
    /\ UNCHANGED managers
    /\ UNCHANGED <<pollVars, consultVars, funVars>>

\* self._initiate_search and the test of the job_id, in call p
ConcInitiate(p) ==
    /\ threads[p].pc = "initiate"
    /\ threads' = [threads EXCEPT
          ![p].pc = IF threads[p].script.initiate = "job"
                    THEN "poll" ELSE "finally",
          ![p].code = CASE threads[p].script.initiate = "job" -> "none"
                        [] threads[p].script.initiate = "no_job" ->
                             "SEARCH_INITIATION_FAILED"
                        [] threads[p].script.initiate = "api_error" ->
                             "CONSULTATION_ERROR"]
    /\ UNCHANGED <<managers, clients>>
    /\ UNCHANGED <<pollVars, consultVars, funVars>>

\* poll_search_completion in call p: PollingManager() and reset()
ConcStartPolling(p) ==
    /\ threads[p].pc = "poll"
    /\ managers' = [managers EXCEPT ![ManagerOf(p)] =
          [exists |-> TRUE, elapsed |-> 0,
           current_interval |-> DefaultConfig.initial_interval,
           poll_count |-> 0]]
    /\ threads' = [threads EXCEPT ![p].pc = "loop"]
    /\ UNCHANGED clients
    /\ UNCHANGED <<pollVars, consultVars, funVars>>

\* one pass of the while loop of poll_until_complete in call p: the budget
\* test, the status check, and the sleep with backoff when not ready
ConcPollIteration(p) ==
    LET m == managers[ManagerOf(p)]
        stats == [elapsed_time |-> m.elapsed, poll_count |-> m.poll_count]
    IN  /\ threads[p].pc = "loop"
        /\ IF m.elapsed >= DefaultConfig.max_wait_time
                               - DefaultConfig.timeout_buffer
           THEN /\ threads' = [threads EXCEPT
                      ![p].pc = "finally",
                      ![p].code = "CONSULTATION_ERROR",
                      ![p].stats = stats]
                /\ UNCHANGED managers
           ELSE IF threads[p].checks + 1 = threads[p].script.ready_at
           THEN /\ threads' = [threads EXCEPT
                      ![p].pc = "fetch",
                      ![p].checks = @ + 1,
                      ![p].stats = stats]
                /\ UNCHANGED managers
           ELSE /\ threads' = [threads EXCEPT ![p].checks = @ + 1]
                /\ managers' = [managers EXCEPT ![ManagerOf(p)] =
                      [m EXCEPT
                          !.elapsed = @ + m.current_interval,
                          !.current_interval =
                              NextInterval(m.current_interval, DefaultConfig),
                          !.poll_count = @ + 1]]
        /\ UNCHANGED clients
        /\ UNCHANGED <<pollVars, consultVars, funVars>>

\* self._get_search_results and the response, in call p
ConcFetch(p) ==
    /\ threads[p].pc = "fetch"
    /\ threads' = [threads EXCEPT
          ![p].pc = "finally",
          ![p].code = IF threads[p].script.fetch = "ok"
                      THEN "success" ELSE "CONSULTATION_ERROR"]
    /\ UNCHANGED <<managers, clients>>
    /\ UNCHANGED <<pollVars, consultVars, funVars>>

\* finally: tool.close(), and call p returns
ConcReturn(p) ==
    /\ threads[p].pc = "finally"
    /\ threads' = [threads EXCEPT ![p].pc = "done"]
    /\ clients' = IF clients[ToolOf(p)].exists
                  THEN [clients EXCEPT ![ToolOf(p)].closed = TRUE]
                  ELSE clients
    /\ UNCHANGED managers
    /\ UNCHANGED <<pollVars, consultVars, funVars>>

ConcInit ==
    /\ PollIdle
    /\ ConsultIdle
    /\ ConcIdle
    /\ FunIdle
    /\ arg = <<>>
    /\ environ = NoEnvironment
    /\ tool_kind = "process"
    /\ entry = "function"

NextConc ==
    \E p \in Calls :
        \/ ConcCall(p)
        \/ ConcGetClient(p)
        \/ ConcInitiate(p)
        \/ ConcStartPolling(p)
        \/ ConcPollIteration(p)
        \/ ConcFetch(p)
        \/ ConcReturn(p)

SpecConc == ConcInit /\ [][NextConc]_vars

(***************************************************************************)
(* The functions of the validators, applied                                *)
(***************************************************************************)

\* validate_cpf(arg)
ApplyValidateCpf ==
    /\ fn = "none"
    /\ arg \in CpfInputs
    /\ fn' = "validate_cpf"
    /\ ret' = validate_cpf(arg)
    /\ UNCHANGED arg
    /\ UNCHANGED <<pollVars, consultVars, concVars>>

\* validate_cnpj(arg)
ApplyValidateCnpj ==
    /\ fn = "none"
    /\ arg \in CnpjInputs
    /\ fn' = "validate_cnpj"
    /\ ret' = validate_cnpj(arg)
    /\ UNCHANGED arg
    /\ UNCHANGED <<pollVars, consultVars, concVars>>

\* extract_process_numbers(arg)
ApplyExtractProcessNumbers ==
    /\ fn = "none"
    /\ arg \in ExtractTexts
    /\ fn' = "extract_process_numbers"
    /\ ret' = extract_process_numbers(arg)
    /\ UNCHANGED arg
    /\ UNCHANGED <<pollVars, consultVars, concVars>>

\* extract_documents(arg)
ApplyExtractDocuments ==
    /\ fn = "none"
    /\ arg \in ExtractTexts
    /\ fn' = "extract_documents"
    /\ ret' = extract_documents(arg)
    /\ UNCHANGED arg
    /\ UNCHANGED <<pollVars, consultVars, concVars>>

\* extract_first_process(arg)
ApplyExtractFirstProcess ==
    /\ fn = "none"
    /\ arg \in ExtractTexts
    /\ fn' = "extract_first_process"
    /\ ret' = extract_first_process(arg)
    /\ UNCHANGED arg
    /\ UNCHANGED <<pollVars, consultVars, concVars>>

\* extract_first_document(arg)
ApplyExtractFirstDocument ==
    /\ fn = "none"
    /\ arg \in ExtractTexts
    /\ fn' = "extract_first_document"
    /\ ret' = extract_first_document(arg)
    /\ UNCHANGED arg
    /\ UNCHANGED <<pollVars, consultVars, concVars>>

\* validate_process_number(arg)
ApplyValidateProcessNumber ==
    /\ fn = "none"
    /\ arg \in ExtractTexts
    /\ fn' = "validate_process_number"
    /\ ret' = validate_process_number(arg)
    /\ UNCHANGED arg
    /\ UNCHANGED <<pollVars, consultVars, concVars>>

\* normalize_process_number(arg)
ApplyNormalizeProcessNumber ==
    /\ fn = "none"
    /\ arg \in ExtractTexts
    /\ fn' = "normalize_process_number"
    /\ ret' = normalize_process_number(arg)
    /\ UNCHANGED arg
    /\ UNCHANGED <<pollVars, consultVars, concVars>>

\* normalize_document(arg)
ApplyNormalizeDocument ==
    /\ fn = "none"
    /\ arg \in FunInputs
    /\ fn' = "normalize_document"
    /\ ret' = normalize_document(arg)
    /\ UNCHANGED arg
    /\ UNCHANGED <<pollVars, consultVars, concVars>>

FunInit ==
    /\ PollIdle
    /\ ConsultIdle
    /\ ConcIdle
    /\ FunIdle
    /\ arg \in FunInputs
    /\ environ = NoEnvironment
    /\ tool_kind = "process"
    /\ entry = "function"

NextFun ==
    \/ ApplyValidateCpf
    \/ ApplyValidateCnpj
    \/ ApplyExtractProcessNumbers
    \/ ApplyExtractDocuments
    \/ ApplyExtractFirstProcess
    \/ ApplyExtractFirstDocument
    \/ ApplyValidateProcessNumber
    \/ ApplyNormalizeProcessNumber
    \/ ApplyNormalizeDocument

SpecFun == FunInit /\ [][NextFun]_vars

(***************************************************************************)
(* Properties of the polling engine                                        *)
(***************************************************************************)

Threshold(c) == c.max_wait_time - c.timeout_buffer

CallbackCalls == IF callables.has_callback THEN 1 ELSE 0

RECURSIVE Pow(_, _)
Pow(b, e) == IF e = 0 THEN 1 ELSE b * Pow(b, e - 1)

\* min(initial_interval * backoff_multiplier^(k-1), max_interval); past twelve
\* multiplications a multiplier >= 1 has long reached the cap
ExpectedSleep(c, k) ==
    IF k <= 13
    THEN Min((c.initial_interval * Pow(c.backoff_num, k - 1))
                 \div Pow(c.backoff_den, k - 1), c.max_interval)
    ELSE c.max_interval

\* C3: in an iteration whose status check succeeds the engine calls, once
\* each and in this order, the status checker, the progress callback (when
\* one was supplied) with the raw status, and the completion predicate with
\* the same status; when the predicate holds that status is returned at
\* once, with no sleep and no status check in between.
C3_CallOrder ==
    /\ ppc = "callback" =>
          /\ iter = [checks |-> 1, callbacks |-> 0, predicates |-> 0]
          /\ status.n = status_calls
    /\ ppc = "predicate" =>
          /\ iter = [checks |-> 1, callbacks |-> CallbackCalls,
                     predicates |-> 0]
          /\ callables.has_callback => cb_arg = status
    /\ ppc \in {"wait", "returned"} =>
          /\ iter = [checks |-> 1, callbacks |-> CallbackCalls,
                     predicates |-> 1]
          /\ callables.has_callback => cb_arg = status
          /\ pred_arg = status
          /\ status.n = status_calls
          /\ status.ready <=> ppc = "returned"
    /\ ppc = "returned" => poll_result = status

C3_ReturnsAtOnce ==
    (ppc = "predicate" /\ status.ready /\ ppc' # "except") =>
        /\ ppc' = "returned"
        /\ poll_result' = status
        /\ UNCHANGED <<elapsed, sleep_log, status_calls, poll_count>>

C3_IterationOrder == []C3_CallOrder /\ [][C3_ReturnsAtOnce]_vars

C3_Witness ==
    /\ ppc = "returned"
    /\ callables.has_callback
    /\ poll_count >= 2
    /\ cb_arg = poll_result
    /\ pred_arg = poll_result

C5_TimeoutBeforeCeiling ==
    cfg = DefaultConfig =>
        /\ ppc = "check" => test_elapsed < Ticks(870)
        /\ ppc = "timeout" => poll_error.elapsed_time < Ticks(900)

\* C6: once a status check has found the job not complete with the budget
\* already used up, the engine raises the timeout without another sleep.
C6_NoSleepAfterBudget ==
    [][(ppc = "wait" /\ elapsed >= Threshold(cfg)) =>
          (ppc' = "timeout" /\ sleep_log' = sleep_log)]_vars

\* C7: an exception of the status checker is not propagated: neither the
\* callback nor the predicate runs in that iteration, the engine sleeps for
\* the current interval, backs off and counts the poll as usual, and goes
\* back to the loop test.
C7_FailedCheckState ==
    (ppc = "except" /\ status = NoStatus) =>
        iter = [checks |-> 1, callbacks |-> 0, predicates |-> 0]

C7_FailedCheckStep ==
    (ppc = "except" /\ status = NoStatus) =>
        /\ ppc' = "loop"
        /\ elapsed' = elapsed + current_interval
        /\ sleep_log' = Append(sleep_log, current_interval)
        /\ current_interval' =
              Min((current_interval * cfg.backoff_num) \div cfg.backoff_den,
                  cfg.max_interval)
        /\ poll_count' = poll_count + 1
        /\ UNCHANGED <<iter, status_calls>>

C7_CheckerErrorAbsorbed ==
    [](ppc # "raised") /\ []C7_FailedCheckState /\ [][C7_FailedCheckStep]_vars

C7_Witness ==
    /\ ppc = "check"
    /\ absorbed
    /\ ~callables.may_raise
    /\ poll_count = 3
    /\ status_calls = 3

\* C8: PollingTimeoutError is raised only when the budget test has seen
\* elapsed >= max_wait_time - timeout_buffer, and it reports the elapsed time
\* and a poll count equal to the number of sleeps of the operation.
C8_TimeoutOnlyPastBudget ==
    ppc = "timeout" =>
        /\ test_elapsed >= Threshold(cfg)
        /\ poll_error.elapsed_time = elapsed
        /\ poll_error.poll_count = Len(sleep_log)

C8_Witness ==
    /\ ppc = "timeout"
    /\ cfg = CappedConfig
    /\ poll_error.poll_count >= 3
    /\ poll_error.elapsed_time >= Threshold(cfg)

\* C9: max wait 5 s, buffer 1 s, initial interval 2 s, a job that is never
\* ready and instantaneous checks: the timeout reports between 4 s and 6 s.
C9_ShortTimeoutWindow ==
    (cfg = ShortConfig /\ ppc = "timeout" /\ check_time = 0) =>
        /\ poll_error.elapsed_time >= Ticks(4)
        /\ poll_error.elapsed_time <= Ticks(6)

C9_Witness ==
    /\ cfg = ShortConfig
    /\ ppc = "timeout"
    /\ check_time = 0
    /\ status_calls = 2
    /\ poll_error.elapsed_time = Ticks(5)

(***************************************************************************)
(* Properties of the consultation tools                                    *)
(***************************************************************************)

IsPrefix(a, b) == Len(a) <= Len(b) /\ SubSeq(b, 1, Len(a)) = a

InLog(op) == \E j \in 1..Len(remote_log) : remote_log[j] = op

LastLogged(log) == IF log = <<>> THEN "none" ELSE log[Len(log)]

\* C1: consult never raises: whatever the remote side does, the call ends
\* with a structured result whose status is 'success' or 'error'.
C1_ConsultNeverRaises ==
    /\ result.status \in {"none", "success", "error"}
    /\ cpc \in {"finally", "done"} => result.status \in {"success", "error"}

C1_Witness ==
    /\ cpc = "done"
    /\ result.status = "error"
    /\ result.error.code = "UNEXPECTED_ERROR"
    /\ LastLogged(remote_log) = "results"

\* C2: the remote operations of a call come in the order initiate_search,
\* status checks, get_processes: one initiation at most, before any status
\* check; every status check asks for the job_id of that initiation; one
\* fetch at most, made only once a status check has reported the job ready;
\* and a success result only after the fetch.
C2_LogInOrder ==
    /\ \/ IsPrefix(remote_log,
                   <<"create", "auth", "initiate", "status", "results">>)
       \/ IsPrefix(remote_log, <<"initiate", "status", "results">>)
    /\ status_calls > 0 =>
          /\ InLog("initiate")
          /\ ~Falsy(Get(search_response, "job_id", "None"))
          /\ polled_job = search_response.job_id
    /\ result.status = "success" => LastLogged(remote_log) = "results"

C2_FetchAfterReady ==
    (LastLogged(remote_log') = "results" /\ remote_log' # remote_log) =>
        /\ ppc = "returned"
        /\ poll_result.ready
        /\ poll_result.n = status_calls
        /\ LastLogged(remote_log) = "status"

C2_RemoteCallOrder == []C2_LogInOrder /\ [][C2_FetchAfterReady]_vars

C2_Witness ==
    /\ cpc = "done"
    /\ calls = 2
    /\ result.status = "success"
    /\ remote_log = <<"initiate", "status", "results">>

\* C10: when no valid identifier of the tool's kind is found in the message,
\* the call returns the no-identifier error (NO_PROCESS_FOUND or
\* NO_DOCUMENT_FOUND) and nothing remote happens: no client is built, no
\* search is initiated, no status is requested, no result is fetched.
C10_NoIdentifierNoRemoteCall ==
    /\ cpc \in {"finally", "done"} =>
          (identifier = None <=>
               ExtractIdentifier(tool_kind, user_input) = None)
    /\ cpc \in {"get_client", "initiate", "poll", "polling"} =>
          identifier # None
    /\ (cpc # "idle" /\ identifier = None) =>
          /\ cpc \in {"finally", "done"}
          /\ result.status = "error"
          /\ result.error.code = NoIdentifierCode(tool_kind)
          /\ result.data = "None"
          /\ remote_log = <<>>
          /\ clients_created = 0
          /\ status_calls = 0
          /\ ppc = "idle"
          /\ sent_identifier = None
          /\ fetched_identifier = None

C10_Witness ==
    /\ cpc = "done"
    /\ tool_kind = "document"
    /\ user_input = TEXT_CPF_BAD
    /\ result.status = "error"
    /\ result.error.code = "NO_DOCUMENT_FOUND"

\* C11: when initiate_search returns a response whose job_id is missing, None
\* or empty, the call ends with the SEARCH_INITIATION_FAILED error, and no
\* status check and no result fetch is ever made.
C11_NoJobNoPolling ==
    (search_response # Unassigned
        /\ Get(search_response, "job_id", "None") \in {"None", ""}) =>
        /\ cpc \in {"finally", "done"}
        /\ result.status = "error"
        /\ result.error.code = "SEARCH_INITIATION_FAILED"
        /\ result.data = "None"
        /\ LastLogged(remote_log) = "initiate"
        /\ ~InLog("status")
        /\ ~InLog("results")
        /\ ppc = "idle"
        /\ status_calls = 0
        /\ fetched_identifier = None

C11_Witness ==
    /\ cpc = "done"
    /\ search_response = [job_id |-> ""]
    /\ sent_identifier # None
    /\ result.status = "error"
    /\ result.error.code = "SEARCH_INITIATION_FAILED"

\* C12: a polling timeout, an API error of initiate_search or get_processes
\* and a failure to build or authenticate the client give the code
\* CONSULTATION_ERROR with the failure message; any other exception gives
\* UNEXPECTED_ERROR with its message; an exception gives no other code.
KnownFailures == {"PollingTimeoutError", "WebJusticeAPIError"}

C12_ErrorMapping ==
    /\ cpc \in {"finally", "done"} /\ raised # NoException =>
          /\ result.status = "error"
          /\ result.error.message.detail = raised.detail
          /\ result.error.code =
                IF \/ raised.type \in KnownFailures
                   \/ ~InLog("initiate")
                THEN "CONSULTATION_ERROR"
                ELSE "UNEXPECTED_ERROR"
    /\ cpc \in {"finally", "done"} /\ raised = NoException =>
          \/ result.status = "success"
          \/ result.error.code \in {NoIdentifierCode(tool_kind),
                                     "SEARCH_INITIATION_FAILED"}
    /\ cpc \notin {"finally", "done"} => raised = NoException

C12_Witness ==
    /\ cpc = "done"
    /\ raised.type = "PollingTimeoutError"
    /\ result.error.code = "CONSULTATION_ERROR"
    /\ result.error.message.text = "Search timed out"
    /\ LastLogged(remote_log) = "status"

\* C13: a result is either a success or an error, never both: a success has
\* the query with the identifier, the job metadata, the raw payload and the
\* summary, and no error field; an error has a code of the fixed set, a
\* message and null data.
ErrorCodes ==
    {"NO_PROCESS_FOUND", "NO_DOCUMENT_FOUND", "SEARCH_INITIATION_FAILED",
     "CONSULTATION_ERROR", "UNEXPECTED_ERROR"}

C13_SuccessOrError ==
    /\ result.status = "success" =>
          /\ DOMAIN result =
                {"status", "tool", "query", "search_info", "summary",
                 IF tool_kind = "process" THEN "data_details" ELSE "data"}
          /\ IF tool_kind = "process"
             THEN /\ result.query.process_number = identifier
                  /\ result.data_details.is_dict
             ELSE /\ result.query.document = identifier
                  /\ result.data.is_dict
          /\ result.search_info.job_id = search_response.job_id
          /\ DOMAIN result.summary =
                {"total_processes", "document_searched", "search_completed_at"}
    /\ result.status = "error" =>
          /\ DOMAIN result = {"status", "tool", "error", "data"}
          /\ DOMAIN result.error = {"code", "message"}
          /\ result.error.code \in ErrorCodes
          /\ result.data = "None"
    /\ result = NoResult \/ result.tool = ToolName(tool_kind)

C13_Witness ==
    /\ cpc = "done"
    /\ tool_kind = "document"
    /\ result.status = "success"
    /\ result.query.document_type = "CNPJ"
    /\ result.summary.total_processes = 2

\* C14: interleaved calls do not interfere: a step of one call leaves the
\* polling state (elapsed time, interval, poll counter), the client and the
\* progress of every other call as they were, and each call ends with the
\* result and the polling statistics it has when it runs alone against the
\* same answers of the remote side.
RECURSIVE SumSleeps(_, _)
SumSleeps(c, k) ==
    IF k = 0 THEN 0 ELSE SumSleeps(c, k - 1) + ExpectedSleep(c, k)

RECURSIVE PollsUntilTimeout(_, _)
PollsUntilTimeout(c, k) ==
    IF SumSleeps(c, k) >= Threshold(c) THEN k ELSE PollsUntilTimeout(c, k + 1)

AloneStats(polls) ==
    [elapsed_time |-> SumSleeps(DefaultConfig, polls), poll_count |-> polls]

AloneOutcome(script) ==
    IF script.client = "fails"
    THEN [code |-> "CONSULTATION_ERROR", stats |-> NoStats]
    ELSE IF script.initiate = "no_job"
    THEN [code |-> "SEARCH_INITIATION_FAILED", stats |-> NoStats]
    ELSE IF script.initiate = "api_error"
    THEN [code |-> "CONSULTATION_ERROR", stats |-> NoStats]
    ELSE IF script.ready_at = 0
    THEN [code |-> "CONSULTATION_ERROR",
          stats |-> AloneStats(PollsUntilTimeout(DefaultConfig, 0))]
    ELSE [code |-> IF script.fetch = "ok" THEN "success"
                   ELSE "CONSULTATION_ERROR",
          stats |-> AloneStats(script.ready_at - 1)]

C14_SameAsAlone ==
    \A p \in Calls :
        threads[p].pc \in {"finally", "done"} =>
            [code |-> threads[p].code, stats |-> threads[p].stats]
                = AloneOutcome(threads[p].script)

C14_OwnStateOnly ==
    \E p \in Calls :
        /\ threads'[p] # threads[p]
        /\ \A q \in Calls \ {p} :
              /\ threads'[q] = threads[q]
              /\ managers'[ManagerOf(q)] = managers[ManagerOf(q)]
              /\ clients'[ToolOf(q)] = clients[ToolOf(q)]

C14_NoInterference == []C14_SameAsAlone /\ [][C14_OwnStateOnly]_vars

C14_Witness ==
    /\ threads[1].pc = "finally"
    /\ threads[1].code = "success"
    /\ threads[1].stats.poll_count = 2
    /\ threads[2].pc = "loop"
    /\ managers[2].poll_count = 5
    /\ managers[1].poll_count = 2

(***************************************************************************)
(* Properties of the validators                                            *)
(***************************************************************************)

RECURSIVE SeqSum(_)
SeqSum(terms) == IF terms = <<>> THEN 0 ELSE Head(terms) + SeqSum(Tail(terms))

Repeated(d) == Cardinality({d[j] : j \in 1..Len(d)}) = 1

\* ((sum over i = 0..n-1 of d[i] * (n + 1 - i)) * 10 mod 11) mod 10
CpfCheckDigit(d, n) ==
    ((SeqSum([j \in 1..n |-> DigitValue(d[j]) * (n + 2 - j)]) * 10) % 11) % 10

\* C15: an eleven-digit string is a valid CPF exactly when its digits are
\* not all the same and its 10th and 11th digits are the check digits
\* computed from the first nine and the first ten digits.
C15_CpfCheckDigits ==
    fn = "validate_cpf" =>
        (ret <=> /\ ~Repeated(arg)
                 /\ DigitValue(arg[10]) = CpfCheckDigit(arg, 9)
                 /\ DigitValue(arg[11]) = CpfCheckDigit(arg, 10))

C15_Witness ==
    /\ fn = "validate_cpf"
    /\ arg = Chars(<<1, 2, 3, 4, 5, 6, 7, 8, 9, 0, 9>>)
    /\ ret = TRUE

\* 11 - (sum mod 11) when sum mod 11 >= 2, and 0 otherwise
CnpjCheckDigit(d, weights) ==
    LET r == SeqSum([j \in 1..Len(weights) |->
                        DigitValue(d[j]) * weights[j]]) % 11
    IN  IF r >= 2 THEN 11 - r ELSE 0

\* C16: a fourteen-digit string is a valid CNPJ exactly when its digits are
\* not all the same and its 13th and 14th digits are the check digits
\* computed with the two weight tables.
C16_CnpjCheckDigits ==
    fn = "validate_cnpj" =>
        (ret <=> /\ ~Repeated(arg)
                 /\ DigitValue(arg[13]) =
                       CnpjCheckDigit(arg, <<5, 4, 3, 2, 9, 8, 7, 6, 5, 4, 3, 2>>)
                 /\ DigitValue(arg[14]) =
                       CnpjCheckDigit(arg,
                           <<6, 5, 4, 3, 2, 9, 8, 7, 6, 5, 4, 3, 2>>))

C16_Witness ==
    /\ fn = "validate_cnpj"
    /\ arg = Chars(<<1, 1, 2, 2, 2, 3, 3, 3, 0, 0, 0, 1, 8, 1>>)
    /\ ret = TRUE

\* "1234567-89.2023.1.01.0001"
CNJ_CANONICAL ==
    <<"1", "2", "3", "4", "5", "6", "7", "-", "8", "9", ".", "2", "0", "2",
      "3", ".", "1", ".", "0", "1", ".", "0", "0", "0", "1">>

\* C17: 'processo 1234567-89.2023.1.01.0001' yields exactly the number
\* 1234567-89.2023.1.01.0001, and a text holding the same twenty digits
\* without punctuation yields the identical string.
C17_SameCanonicalForm ==
    /\ (fn = "extract_process_numbers"
           /\ arg \in {TEXT_CNJ, TEXT_CNJ_FLAT, TEXT_CNJ_FLAT_WORDS}) =>
          ret = <<CNJ_CANONICAL>>
    /\ (fn = "extract_first_process"
           /\ arg \in {TEXT_CNJ, TEXT_CNJ_FLAT, TEXT_CNJ_FLAT_WORDS}) =>
          ret = CNJ_CANONICAL

C17_Witness ==
    /\ fn = "extract_process_numbers"
    /\ arg = TEXT_CNJ_FLAT_WORDS
    /\ ret = <<CNJ_CANONICAL>>
    /\ OnlyDigits(ret[1]) = OnlyDigits(arg)

\* the valid candidates of the three tiers for the text under extraction
StrictTier == FormatAll(FindAllFull(Strip(arg), 1))

LooseTier == FormatAll(FindAllLoose(Strip(arg), 1))

FlatTier == FormatAll(FlatPartsAll(FindAllFlat(Strip(arg), 1)))

Elements(items) == {items[j] : j \in 1..Len(items)}

\* C18: the extraction of process numbers returns the valid candidates of
\* the first tier, in the order strict, loose, flat, that has any: those of
\* the loose tier only when the strict tier has none, those of the flat
\* tier only when neither has any, and never candidates of two tiers.
C18_FirstTierWins ==
    fn = "extract_process_numbers" =>
        /\ StrictTier # <<>> => ret = Unique(StrictTier, {})
        /\ (StrictTier = <<>> /\ LooseTier # <<>>) =>
              ret = Unique(LooseTier, {})
        /\ (StrictTier = <<>> /\ LooseTier = <<>>) =>
              ret = Unique(FlatTier, {})

\* a text whose strict tier has one number and whose loose tier has one
\* more, which is left out
C18_Witness ==
    /\ fn = "extract_process_numbers"
    /\ StrictTier # <<>>
    /\ Elements(LooseTier) \ Elements(StrictTier) # {}
    /\ Elements(ret) = Elements(StrictTier)

\* the year and the segment written in a formatted process number, read
\* from its end
YearOf(number) ==
    ToInt(SubSeq(number, Len(number) - 13, Len(number) - 10))

SegmentOf(number) == ToInt(<<number[Len(number) - 8]>>)

\* the candidate has a year and a segment of the valid sets
ValidParts(parts) ==
    /\ ToInt(parts[3]) \in 1998..2049
    /\ ToInt(parts[4]) \in {1, 2, 3, 4, 6, 8, 9}

AnyValid(matches) == \E j \in 1..Len(matches) : ValidParts(matches[j])

\* every valid candidate among the matches is in the returned sequence
AllValidReturned(matches) ==
    \A j \in 1..Len(matches) :
        ValidParts(matches[j]) =>
            \E k \in 1..Len(ret) : OnlyDigits(ret[k]) = Join(matches[j])

StrictMatches == FindAllFull(Strip(arg), 1)

LooseMatches == FindAllLoose(Strip(arg), 1)

FlatMatches == FlatPartsAll(FindAllFlat(Strip(arg), 1))

\* C19: every returned process number has a year in 1998..2049 and a
\* segment in {1,2,3,4,6,8,9}, and a candidate failing these tests does not
\* end the scan: every valid candidate of the tier in use is returned,
\* those after an invalid one included.
C19_InvalidCandidateSkipped ==
    fn = "extract_process_numbers" =>
        /\ \A k \in 1..Len(ret) :
              /\ YearOf(ret[k]) \in 1998..2049
              /\ SegmentOf(ret[k]) \in {1, 2, 3, 4, 6, 8, 9}
        /\ AllValidReturned(StrictMatches)
        /\ ~AnyValid(StrictMatches) => AllValidReturned(LooseMatches)
        /\ (~AnyValid(StrictMatches) /\ ~AnyValid(LooseMatches)) =>
              AllValidReturned(FlatMatches)

\* a text whose first candidate has an invalid year or segment and whose
\* second candidate is returned
C19_Witness ==
    /\ fn = "extract_process_numbers"
    /\ Len(StrictMatches) = 2
    /\ ~ValidParts(StrictMatches[1])
    /\ ValidParts(StrictMatches[2])
    /\ Len(ret) = 1
    /\ OnlyDigits(ret[1]) = Join(StrictMatches[2])

\* the identifier with digits ds is written in t from position i on, with
\* or without its punctuation
OccursAt(ds, t, i) ==
    /\ t[i] \in Digits
    /\ \E n \in Len(ds)..(Len(ds) + 5) :
          /\ i + n - 1 <= Len(t)
          /\ \A j \in i..(i + n - 1) : t[j] \in Digits \cup {".", "-", "/"}
          /\ OnlyDigits(SubSeq(t, i, i + n - 1)) = ds

\* the position of the first occurrence of the identifier in t, 0 if none
FirstOccurrence(item, t) ==
    LET ds   == OnlyDigits(item)
        here == {i \in 1..Len(t) : OccursAt(ds, t, i)}
    IN  IF here = {} THEN 0
        ELSE CHOOSE i \in here : \A j \in here : i <= j

\* the entries follow the order of their first occurrence in t
InOccurrenceOrder(items, t) ==
    \A j, k \in 1..Len(items) :
        j < k => /\ FirstOccurrence(items[j], t) > 0
                 /\ FirstOccurrence(items[j], t) < FirstOccurrence(items[k], t)

\* no two entries have the same digits-only value
NoDuplicates(items) ==
    \A j, k \in 1..Len(items) :
        j # k => OnlyDigits(items[j]) # OnlyDigits(items[k])

\* the returned identifier is the one of `all` that occurs first in t
IsEarliest(first, all, t) ==
    \A k \in 1..Len(all) :
        FirstOccurrence(first, t) <= FirstOccurrence(all[k], t)

\* C20: the sequence returned by extract_documents and by
\* extract_process_numbers lists the identifiers in the order of their
\* first occurrence in the text, whatever their kind, without two entries
\* of the same digits-only value, and extract_first returns the valid
\* identifier that occurs earliest.
C20_OccurrenceOrder ==
    /\ fn \in {"extract_documents", "extract_process_numbers"} =>
          /\ InOccurrenceOrder(ret, Strip(arg))
          /\ NoDuplicates(ret)
    /\ (fn = "extract_first_document" /\ ret # None) =>
          IsEarliest(ret, extract_documents(arg), Strip(arg))
    /\ (fn = "extract_first_process" /\ ret # None) =>
          IsEarliest(ret, extract_process_numbers(arg), Strip(arg))

(***************************************************************************)
(* Properties of the consultations and of normalization                    *)
(***************************************************************************)

\* the digits of doc satisfy the check-digit rule of their length
ValidDocument(doc) ==
    LET d == OnlyDigits(doc)
    IN  \/ /\ Len(d) = 11
           /\ ~Repeated(d)
           /\ DigitValue(d[10]) = CpfCheckDigit(d, 9)
           /\ DigitValue(d[11]) = CpfCheckDigit(d, 10)
        \/ /\ Len(d) = 14
           /\ ~Repeated(d)
           /\ DigitValue(d[13]) =
                 CnpjCheckDigit(d, <<5, 4, 3, 2, 9, 8, 7, 6, 5, 4, 3, 2>>)
           /\ DigitValue(d[14]) =
                 CnpjCheckDigit(d, <<6, 5, 4, 3, 2, 9, 8, 7, 6, 5, 4, 3, 2>>)

\* the digit strings of the CPF-shaped, CNPJ-shaped and bare-number
\* candidates of a text
ShapedCandidates(text) ==
    LET t == Strip(text)
    IN  {Join(m) : m \in Elements(FindAllCpf(t, 1))}
            \cup {Join(m) : m \in Elements(FindAllCnpj(t, 1))}
            \cup Elements(FindAllNumbers(t, 1))

\* C21: document extraction returns only identifiers whose check digits
\* validate; a text whose CPF/CNPJ-shaped candidates all fail validation
\* yields the empty sequence, and consult_document on it returns the
\* NO_DOCUMENT_FOUND error.
C21_OnlyValidDocuments ==
    (cpc \in {"finally", "done"} /\ tool_kind = "document") =>
        /\ \A d \in Elements(extract_documents(user_input)) : ValidDocument(d)
        /\ identifier # None => ValidDocument(identifier)
        /\ (\A c \in ShapedCandidates(user_input) : ~ValidDocument(c)) =>
              /\ extract_documents(user_input) = <<>>
              /\ identifier = None
              /\ result.status = "error"
              /\ result.error.code = "NO_DOCUMENT_FOUND"

\* a message with a CPF-shaped candidate that fails validation
C21_Witness ==
    /\ cpc = "done"
    /\ tool_kind = "document"
    /\ ShapedCandidates(user_input) # {}
    /\ \A c \in ShapedCandidates(user_input) : ~ValidDocument(c)
    /\ identifier = None
    /\ result.error.code = "NO_DOCUMENT_FOUND"

\* C22: normalization is idempotent: normalizing the identifier that
\* extract_first returned gives that identifier back, and normalizing the
\* result of a normalization gives that result back, for process numbers
\* and for documents.
C22_NormalizeIdempotent ==
    /\ (fn = "extract_first_process" /\ ret # None) =>
          normalize_process_number(ret) = Returns(ret)
    /\ (fn = "extract_first_document" /\ ret # None) =>
          normalize_document(ret) = Returns(ret)
    /\ (fn = "normalize_process_number" /\ ret.ok) =>
          normalize_process_number(ret.value) = ret
    /\ (fn = "normalize_document" /\ ret.ok) =>
          normalize_document(ret.value) = ret

\* the string v has the separators of seps at their positions and digits
\* everywhere else
HasShape(v, length, seps) ==
    /\ Len(v) = length
    /\ \A j \in 1..Len(v) :
          IF j \in DOMAIN seps THEN v[j] = seps[j] ELSE v[j] \in Digits

\* NNNNNNN-DD.AAAA.J.TR.OOOO
CanonicalProcessNumber(v) ==
    HasShape(v, 25, (8 :> "-") @@ (11 :> ".") @@ (16 :> ".") @@ (18 :> ".")
                        @@ (21 :> "."))

\* XXX.XXX.XXX-XX or XX.XXX.XXX/XXXX-XX
CanonicalDocument(v) ==
    \/ HasShape(v, 14, (4 :> ".") @@ (8 :> ".") @@ (12 :> "-"))
    \/ HasShape(v, 18, (3 :> ".") @@ (7 :> ".") @@ (11 :> "/") @@ (16 :> "-"))

\* a valid identifier of the kind can be derived from the input: a candidate
\* in it validates, or its digits alone are a valid document
ProcessDerivable(x) == AnyValid(FindAllFull(Strip(x), 1))
                          \/ AnyValid(FindAllLoose(Strip(x), 1))
                          \/ AnyValid(FlatPartsAll(FindAllFlat(Strip(x), 1)))

DocumentDerivable(x) ==
    \/ ValidDocument(x)
    \/ \E c \in ShapedCandidates(x) : ValidDocument(c)

\* C23: normalization raises the validation error of its kind, carrying the
\* input, exactly when no valid identifier can be derived from the input;
\* otherwise it returns the canonical formatted string of a valid
\* identifier.
C23_NormalizeRaisesOrReturns ==
    /\ fn = "normalize_process_number" =>
          IF ProcessDerivable(arg)
          THEN /\ ret.ok
               /\ CanonicalProcessNumber(ret.value)
          ELSE /\ ~ret.ok
               /\ ret.error = "ProcessValidationError"
               /\ ret.input = arg
    /\ fn = "normalize_document" =>
          IF DocumentDerivable(arg)
          THEN /\ ret.ok
               /\ CanonicalDocument(ret.value)
               /\ ValidDocument(ret.value)
          ELSE /\ ~ret.ok
               /\ ret.error = "DocumentValidationError"
               /\ ret.input = arg

\* the detail of a result payload: the dict nested under 'data_details',
\* else the dict nested under 'data', else the payload itself
DetailOf(payload) ==
    LET nested(key) == Get(payload.fields, key, NullValue)
    IN  IF nested("data_details").is_dict /\ nested("data_details").truthy
        THEN nested("data_details")
        ELSE IF nested("data").is_dict /\ nested("data").truthy
        THEN nested("data")
        ELSE payload

\* the payload carried by a success result
PayloadOf(response) ==
    IF response.tool = "process_consultation" THEN response.data_details
    ELSE response.data

\* C24: in a success result of either tool the three summary fields are
\* read from the payload's detail, whether the detail is nested under
\* 'data_details', nested under 'data' or given at the top level; a missing
\* record count reads 0, a missing timestamp reads None, and a missing
\* document reads the extracted identifier.
C24_SummaryReadDefensively ==
    (cpc \in {"finally", "done"} /\ result.status = "success") =>
        LET detail == DetailOf(PayloadOf(result)).fields
        IN  /\ result.summary.total_processes =
                  Get(detail, "total_processos", 0)
            /\ result.summary.search_completed_at =
                  Get(detail, "search_completed_at", "None")
            /\ result.summary.document_searched =
                  Get(detail, "documento", identifier)

C26_ParametersFromEnvironment ==
    cpc = "polling" =>
        /\ cfg = from_environment(environ)
        /\ sleep_log # <<>> =>
              sleep_log[1] = Get(environ, "POLLING_INITIAL_INTERVAL", Ticks(2))

\* C27: every call of poll_until_complete starts with elapsed time 0, the
\* current interval at initial_interval and the poll counter at 0, whatever
\* an earlier operation on the same PollingManager (returned, timed out or
\* interrupted) has left; so the waits of an operation follow the series of
\* its configuration from the first term, and its elapsed time is made of
\* its own waits and status checks only.
StartsOperation ==
    /\ ppc \in {"idle", "returned", "timeout", "interrupted"}
    /\ ppc' = "loop"

C27_StartStep ==
    StartsOperation =>
        /\ elapsed' = 0
        /\ current_interval' = cfg'.initial_interval
        /\ poll_count' = 0
        /\ sleep_log' = <<>>

C27_OwnWaitsOnly ==
    operations >= 1 =>
        /\ poll_count = Len(sleep_log)
        /\ current_interval = ExpectedSleep(cfg, Len(sleep_log) + 1)
        /\ \A k \in 1..Len(sleep_log) : sleep_log[k] = ExpectedSleep(cfg, k)
        /\ elapsed = SeqSum(sleep_log) + check_time

C27_FreshEveryOperation == []C27_OwnWaitsOnly /\ [][C27_StartStep]_vars

\* a second operation on the same manager that has waited twice
C27_Witness ==
    /\ operations = 2
    /\ ppc = "returned"
    /\ Len(sleep_log) = 2
    /\ sleep_log[1] = cfg.initial_interval
    /\ sleep_log[2] > sleep_log[1]

\* C28: a document consultation sends to initiate_search the digits-only
\* form of the extracted CPF/CNPJ, a process consultation the extracted
\* number; in both the identifier given to get_processes is the string that
\* was given to initiate_search; and the success response carries in its
\* query the extracted, formatted identifier.
Unpunctuated(t) == SelectSeq(t, LAMBDA ch : ch \notin {".", "-", "/"})

QueryIdentifier ==
    IF tool_kind = "process" THEN result.query.process_number
    ELSE result.query.document

C28_SameIdentifierSent ==
    /\ sent_identifier # None =>
          /\ identifier = ExtractIdentifier(tool_kind, user_input)
          /\ tool_kind = "process" => sent_identifier = identifier
          /\ tool_kind = "document" =>
                /\ sent_identifier = Unpunctuated(identifier)
                /\ \A j \in 1..Len(sent_identifier) :
                      sent_identifier[j] \in Digits
                /\ Len(sent_identifier) \in {11, 14}
    /\ fetched_identifier # None => fetched_identifier = sent_identifier
    /\ result.status = "success" =>
          /\ fetched_identifier = sent_identifier
          /\ QueryIdentifier = identifier
          /\ sent_identifier = IF tool_kind = "process" THEN QueryIdentifier
                               ELSE Unpunctuated(QueryIdentifier)

\* a successful document consultation: digits sent, formatted CPF reported
C28_Witness ==
    /\ tool_kind = "document"
    /\ result.status = "success"
    /\ sent_identifier = Unpunctuated(identifier)
    /\ sent_identifier # identifier
    /\ fetched_identifier = sent_identifier
    /\ result.query.document = identifier

\* C29: a call of the module-level consult_process / consult_document builds
\* at most one client and closes it before returning on every path: when a
\* client object was created (also when authentication failed or a later
\* step ended in an error) close is called on it exactly once, as the last
\* step of the call, and when none was created nothing is closed.
C29_ClientState ==
    entry = "function" =>
        /\ clients_created <= 1
        /\ clients_created = 1 <=> client.exists
        /\ cpc # "done" => closes = 0 /\ ~client.closed
        /\ cpc = "done" =>
              /\ closes = clients_created
              /\ client.exists <=> client.closed

C29_CloseStep ==
    (entry = "function" /\ closes' # closes /\ cpc # "done") =>
        /\ cpc = "finally"
        /\ cpc' = "done"
        /\ closes' = closes + 1
        /\ client.exists
        /\ UNCHANGED <<result, clients_created>>

C29_ClientClosedOnEveryPath == []C29_ClientState /\ [][C29_CloseStep]_vars

\* a module-level call whose client failed to authenticate and was closed
C29_Witness ==
    /\ entry = "function"
    /\ cpc = "done"
    /\ result.status = "error"
    /\ clients_created = 1
    /\ ~client.authenticated
    /\ client.closed
    /\ closes = 1

\* C30: an exception raised by the completion predicate or by the progress
\* callback ends poll_until_complete by propagating to the caller; it is not
\* followed by a backoff wait and another iteration.
CallerCallableRaised ==
    /\ ppc = "except"
    /\ iter.callbacks + iter.predicates > 0

C30_CallerExceptionsPropagate ==
    [][CallerCallableRaised =>
          /\ ppc' = "raised"
          /\ UNCHANGED <<elapsed, sleep_log, poll_count, current_interval,
                         status_calls>>]_vars

(***************************************************************************)
(* Properties of failing collaborators, termination and the interval       *)
(***************************************************************************)

\* C31: when every status check made for a started job fails, the
\* consultation does not return early: each failure is followed by a backoff
\* wait and the next budget test, polling ends only when the budget test
\* fails, and the call then reports CONSULTATION_ERROR with the timeout
\* message; no response ever carries the 'Error during polling' message.
EveryCheckFailed ==
    /\ cpc = "polling"
    /\ status_calls >= 1
    /\ ~answered

C31_State ==
    /\ result.status = "error" =>
          result.error.message.text # "Error during polling"
    /\ EveryCheckFailed =>
          /\ ppc \in {"loop", "check", "except", "timeout"}
          /\ result = NoResult
          /\ status_calls = Len(sleep_log) + (IF ppc = "except" THEN 1 ELSE 0)
          /\ \A k \in 1..Len(sleep_log) : sleep_log[k] = ExpectedSleep(cfg, k)
          /\ ppc = "timeout" => test_elapsed >= Threshold(cfg)

C31_Step ==
    (EveryCheckFailed /\ cpc' # "polling") =>
        /\ ppc = "timeout"
        /\ cpc' = "finally"
        /\ result' = ErrorResponse(tool_kind, "CONSULTATION_ERROR",
                                   "Search timed out", "Polling timeout")

C31_FailingStatusPollsToTimeout == []C31_State /\ [][C31_Step]_vars

\* the budget has run out on a job whose status could never be read
C31_Witness ==
    /\ EveryCheckFailed
    /\ ppc = "timeout"
    /\ absorbed
    /\ status_calls >= 10
    /\ Len(sleep_log) = status_calls

\* C32: poll_until_complete always terminates: whatever the status checker,
\* the callback and the predicate do, a started operation eventually returns
\* a status or raises PollingTimeoutError, and it sleeps at most
\* ceil((max_wait_time - timeout_buffer) / initial_interval) times.
CeilDiv(a, b) == IF a <= 0 THEN 0 ELSE (a + b - 1) \div b

MaxSleeps(c) == CeilDiv(Threshold(c), c.initial_interval)

Terminated == ppc \in {"returned", "timeout"}

\* as claimed: initial_interval > 0, backoff_multiplier >= 1
SleepsBoundedUnvalidated ==
    (ppc # "idle" /\ cfg.initial_interval > 0
        /\ cfg.backoff_num >= cfg.backoff_den) =>
        Len(sleep_log) <= MaxSleeps(cfg)

C32_TerminatesWithinSleeps ==
    /\ (ppc = "loop") ~> Terminated
    /\ []SleepsBoundedUnvalidated

\* amended: the cap is not below the initial interval either
SleepsBounded ==
    (ppc # "idle" /\ cfg.initial_interval > 0
        /\ cfg.initial_interval <= cfg.max_interval
        /\ cfg.backoff_num >= cfg.backoff_den) =>
        Len(sleep_log) <= MaxSleeps(cfg)

C32_TerminatesWithinSleepsCapped ==
    /\ (ppc = "loop") ~> Terminated
    /\ []SleepsBounded

\* a timeout reached on the last sleep the bound allows, with failing checks
C32_Witness ==
    /\ ppc = "timeout"
    /\ cfg = FlatConfig
    /\ absorbed
    /\ Len(sleep_log) = MaxSleeps(cfg)

\* C33: for a configuration with 0 < initial_interval <= max_interval and
\* backoff_multiplier >= 1, in every state of a polling operation
\* initial_interval <= current_interval <= max_interval, the current
\* interval never decreases, and every sleep lasts at most max_interval.
ValidatedIntervals(c) ==
    /\ 0 < c.initial_interval
    /\ c.initial_interval <= c.max_interval
    /\ c.backoff_num >= c.backoff_den

C33_IntervalInRange ==
    (ppc # "idle" /\ ValidatedIntervals(cfg)) =>
        /\ cfg.initial_interval <= current_interval
        /\ current_interval <= cfg.max_interval
        /\ \A k \in 1..Len(sleep_log) : sleep_log[k] <= cfg.max_interval

C33_IntervalStep ==
    (ppc # "idle" /\ ValidatedIntervals(cfg)) =>
        /\ current_interval' >= current_interval
        /\ cfg' = cfg

C33_IntervalBounded == []C33_IntervalInRange /\ [][C33_IntervalStep]_vars

\* an operation whose interval has grown from the initial one to the cap
C33_Witness ==
    /\ cfg = CappedConfig
    /\ ValidatedIntervals(cfg)
    /\ Len(sleep_log) >= 3
    /\ sleep_log[1] = cfg.initial_interval
    /\ sleep_log[1] < sleep_log[2]
    /\ current_interval = cfg.max_interval

\* C34: when max_wait_time <= timeout_buffer, poll_until_complete raises
\* PollingTimeoutError at once with poll count 0: the status checker, the
\* progress callback and the completion predicate are never called and
\* nothing is slept, so a job that is ready already goes unnoticed.
NoBudget(c) == c.max_wait_time <= c.timeout_buffer

C34_NoBudgetState ==
    (ppc # "idle" /\ NoBudget(cfg)) =>
        /\ ppc \in {"loop", "timeout"}
        /\ status_calls = 0
        /\ iter = NoCalls
        /\ ~answered
        /\ sleep_log = <<>>
        /\ elapsed = 0
        /\ poll_result = NoStatus
        /\ ppc = "timeout" => poll_error = [elapsed_time |-> 0, poll_count |-> 0]

C34_NoBudgetStep ==
    (ppc = "loop" /\ NoBudget(cfg)) => ppc' = "timeout"

C34_NoBudgetTimesOutAtOnce == []C34_NoBudgetState /\ [][C34_NoBudgetStep]_vars

\* the timeout of an operation whose buffer covers the whole budget
C34_Witness ==
    /\ NoBudget(cfg)
    /\ ppc = "timeout"
    /\ callables.has_callback
    /\ poll_error.poll_count = 0
    /\ status_calls = 0

(***************************************************************************)
(* Properties of the client, the fetch of results and the extractors       *)
(***************************************************************************)

\* C35: across any sequence of consult calls on one tool, a search is
\* initiated only through a client whose authentication test has succeeded:
\* _get_client never hands out a client whose test failed or never ran.
C35_OnlyAuthenticatedClient ==
    /\ cpc \in {"initiate", "poll", "polling"} =>
          client.exists /\ client.authenticated
    /\ sent_identifier # None => client.exists /\ client.authenticated

\* C36: after the polling has seen the job ready, a 'not ready yet' answer
\* (HTTP 425) of get_results is a hard failure: the call returns
\* CONSULTATION_ERROR at once, with no further status check and no second
\* fetch.
Occurrences(log, op) == Cardinality({j \in 1..Len(log) : log[j] = op})

FetchedTooEarly ==
    /\ cpc \in {"finally", "done"}
    /\ raised = OtherError("WebJusticeAPIError", TooEarly)

C36_TooEarlyState ==
    FetchedTooEarly =>
        /\ result = ErrorResponse(tool_kind, "CONSULTATION_ERROR",
                                  "Failed to retrieve results", TooEarly)
        /\ LastLogged(remote_log) = "results"
        /\ Occurrences(remote_log, "results") = 1
        /\ ppc = "idle"
        /\ status_calls = 0

C36_TooEarlyStep ==
    /\ (cpc = "polling" /\ ppc = "returned") =>
          /\ poll_result.ready
          /\ cpc' = "finally"
          /\ remote_log' = Append(remote_log, "results")
    /\ (FetchedTooEarly /\ cpc = "finally") =>
          /\ cpc' = "done"
          /\ UNCHANGED <<result, remote_log, pollVars>>

C36_TooEarlyIsFinal == []C36_TooEarlyState /\ [][C36_TooEarlyStep]_vars

\* a call that polled until ready and was then told the search is not complete
C36_Witness ==
    /\ cpc = "done"
    /\ FetchedTooEarly
    /\ result.error.code = "CONSULTATION_ERROR"
    /\ remote_log = <<"create", "auth", "initiate", "status", "results">>

\* C37: for a text whose only digits are one valid CNPJ, written formatted
\* or as 14 consecutive digits, extract_documents returns exactly that CNPJ
\* and extract_first_document returns it; no CPF made of a part of the
\* CNPJ's digits is returned.
Contains(t, piece) ==
    \E i \in 1..(Len(t) - Len(piece) + 1) : Slice(t, i, Len(piece)) = piece

SoleCnpj(t) ==
    LET d == OnlyDigits(t)
    IN  /\ Len(d) = 14
        /\ ValidDocument(d)
        /\ Contains(t, d) \/ Contains(t, FormatCnpj(d))

C37_SoleCnpjExtracted ==
    /\ (fn = "extract_documents" /\ SoleCnpj(arg)) =>
          ret = <<FormatCnpj(OnlyDigits(arg))>>
    /\ (fn = "extract_first_document" /\ SoleCnpj(arg)) =>
          ret = FormatCnpj(OnlyDigits(arg))

\* C38: every string extract_process_numbers returns has the layout
\* NNNNNNN-DD.AAAA.J.TR.OOOO with fields of exactly 7, 2, 4, 1, 2 and 4
\* digits, whichever tier produced it, and validate_process_number accepts
\* it.
C38_CanonicalLayout ==
    fn = "extract_process_numbers" =>
        \A j \in 1..Len(ret) :
            /\ CanonicalProcessNumber(ret[j])
            /\ Len(OnlyDigits(ret[j])) = 20
            /\ validate_process_number(ret[j])

====
